---- MODULE Spec2Model ----
(***************************************************************************)
(* Aether Drive: key hierarchy, Aether envelope, encrypted metadata index  *)
(* and session state, modelled from src-tauri/src.                         *)
(*                                                                         *)
(* Byte strings are sequences of integers.  Bytes are 0..255.  The         *)
(* cryptographic primitives of the crates the code calls (Argon2id,        *)
(* HKDF-SHA256, SHA-256, XChaCha20-Poly1305) are modelled as ideal         *)
(* primitives: each output is an injective, bracketed encoding of the      *)
(* primitive's inputs (negative integers are the brackets, so an output    *)
(* is never confused with text bytes).  Everything the code itself does    *)
(* with bytes (concatenation order, prefixes, separators, which key and    *)
(* which AAD go where) is modelled byte by byte.                           *)
(***************************************************************************)
EXTENDS Integers, Sequences, FiniteSets, TLC

VARIABLES st, kh, master_key, storj_client, db, remote, resp, idx

vars == <<st, kh, master_key, storj_client, db, remote, resp, idx>>

appVars == <<master_key, storj_client, db, remote, resp>>

-----------------------------------------------------------------------------
(* Bounds of the model *)

NumKeys == 2
NumRandom == 2
NumPasswords == 2
MaxChanges == 2

-----------------------------------------------------------------------------
(* Byte-string helpers *)

Fill(n, b) == [i \in 1..n |-> b]

\* Lexicographic byte order (Rust's Ord on [u8] and SQLite's BINARY collation):
\* decided at the first position where the two differ
LexLess(a, b) ==
    LET n == IF Len(a) < Len(b) THEN Len(a) ELSE Len(b)
        k == CHOOSE i \in 1..(n + 1) :
                 /\ i = n + 1 \/ a[i] # b[i]
                 /\ SubSeq(a, 1, i - 1) = SubSeq(b, 1, i - 1)
    IN  IF k = n + 1 THEN Len(a) < Len(b) ELSE a[k] < b[k]

\* Stable insertion of a keyed item into a sequence sorted by key
RECURSIVE InsertByKey(_, _)
InsertByKey(x, s) ==
    IF s = <<>> THEN <<x>>
    ELSE IF LexLess(x.key, Head(s).key) THEN <<x>> \o s
    ELSE <<Head(s)>> \o InsertByKey(x, Tail(s))

\* Stable sort by key: later equal keys stay behind earlier ones
RECURSIVE SortByKey(_)
SortByKey(s) ==
    IF s = <<>> THEN <<>>
    ELSE InsertByKey(s[Len(s)], SortByKey(SubSeq(s, 1, Len(s) - 1)))

\* All orderings of a finite set, as sequences
AllOrders(S) ==
    {q \in [1..Cardinality(S) -> S] : \A i, j \in DOMAIN q : q[i] = q[j] => i = j}

Ok(v) == [ok |-> TRUE, val |-> v, err |-> "none"]

Err(e) == [ok |-> FALSE, val |-> <<>>, err |-> e]

-----------------------------------------------------------------------------
(* Program constants *)

MAGIC_NUMBER == <<65, 69, 84, 72>>
VERSION == 1
CIPHER_ID == 2
UUID_LEN == 16
SALT_LEN == 32
NONCE_LEN == 24
MASTER_KEY_LEN == 32
PASSWORD_SALT_LEN == 16
FILE_KEY_INFO ==
    <<97, 101, 116, 104, 101, 114, 45, 100, 114, 105, 118, 101, 58, 102, 105,
      108, 101, 45, 107, 101, 121, 58, 118, 49>>
AAD_PREFIX ==
    <<97, 101, 116, 104, 101, 114, 45, 100, 114, 105, 118, 101, 58, 97, 97,
      100, 58, 118, 49, 58>>
MKEK_AAD ==
    <<97, 101, 116, 104, 101, 114, 45, 100, 114, 105, 118, 101, 58, 109, 107,
      101, 107, 58, 118, 49>>
DB_KEY_INFO ==
    <<97, 101, 116, 104, 101, 114, 45, 100, 114, 105, 118, 101, 58, 115, 113,
      108, 99, 105, 112, 104, 101, 114, 45, 107, 101, 121, 58, 118, 49>>
HMAC_KEY_INFO ==
    <<97, 101, 116, 104, 101, 114, 45, 100, 114, 105, 118, 101, 58, 105, 110,
      100, 101, 120, 45, 104, 109, 97, 99, 45, 107, 101, 121, 58, 118, 49>>
SCHEMA_VERSION == 2
DB_KEY_LEN == 32
MERKLE_EMPTY ==
    <<97, 101, 116, 104, 101, 114, 45, 100, 114, 105, 118, 101, 58, 109, 101,
      114, 107, 108, 101, 58, 101, 109, 112, 116, 121>>
MERKLE_ENTRY ==
    <<97, 101, 116, 104, 101, 114, 45, 100, 114, 105, 118, 101, 58, 109, 101,
      114, 107, 108, 101, 58, 101, 110, 116, 114, 121, 58>>
MERKLE_NODE ==
    <<97, 101, 116, 104, 101, 114, 45, 100, 114, 105, 118, 101, 58, 109, 101,
      114, 107, 108, 101, 58, 110, 111, 100, 101, 58>>

-----------------------------------------------------------------------------
(* Ideal primitives of the crates the code calls *)

\* sha2::Sha256 over the concatenation of its update() calls
Sha256(data) == <<-1>> \o data \o <<-2>>

\* The position of a digest in the byte order of real SHA-256 outputs is
\* unrelated to the order of the preimages: DigestBytes puts a weight mixed
\* from three positions of the preimage first, so that sorting digests is
\* not sorting preimages.
DigestBytes(h) ==
    <<(h[Len(h) - 1] * 31 + h[Len(h) - 4] * 17 + h[(Len(h) + 1) \div 2] * 7) % 251>>
        \o h

\* u64::to_le_bytes: a fixed-width field
U64Le(n) == <<-8, n>>

\* hkdf::Hkdf::<Sha256>::new(salt, ikm).expand(info, 32 bytes)
HkdfSha256(salt, ikm, info) ==
    <<-3>> \o salt \o <<-4>> \o ikm \o <<-4>> \o info \o <<-2>>

\* argon2 hash_password_into(password, salt, 32 bytes)
Argon2id(password, salt) == <<-5>> \o password \o <<-4>> \o salt \o <<-2>>

\* XChaCha20Poly1305 encrypt: the body (as long as the message, which the
\* second cell records) followed by a tag over key, nonce, aad, msg
AeadSeal(key, nonce, aad, msg) ==
    <<-6, Len(msg)>> \o msg \o <<-7>> \o key \o <<-4>> \o nonce \o <<-4>> \o aad
           \o <<-4>> \o msg \o <<-2>>

AeadBody(ct) ==
    IF Len(ct) < 2 THEN <<>>
    ELSE IF ct[1] # -6 \/ ct[2] < 0 \/ Len(ct) < ct[2] + 2 THEN <<>>
    ELSE SubSeq(ct, 3, ct[2] + 2)

\* XChaCha20Poly1305 decrypt: the tag verifies only for the same key, nonce,
\* aad and an unmodified ciphertext
AeadOpen(key, nonce, aad, ct) ==
    IF ct = AeadSeal(key, nonce, aad, AeadBody(ct))
    THEN Ok(AeadBody(ct))
    ELSE Err("Aead")

-----------------------------------------------------------------------------
(* storage/mod.rs: the Aether envelope *)

\* build_aad with the logical path left out
build_aad_without_path(logical_path) == AAD_PREFIX

build_aad(logical_path) == AAD_PREFIX \o logical_path

derive_storage_file_key(master_key_bytes, salt) ==
    HkdfSha256(salt, master_key_bytes, FILE_KEY_INFO)

\* the commitment computed over the header fields alone, without the file key
commitment_without_key(magic, version, cipher_id, uuid, salt, file_key) ==
    Sha256(magic \o <<version>> \o <<cipher_id>> \o uuid \o salt)

commitment(magic, version, cipher_id, uuid, salt, file_key) ==
    Sha256(magic \o <<version>> \o <<cipher_id>> \o uuid \o salt \o file_key)

\* encrypt_file authenticating the bare path instead of build_aad(path)
encrypt_file_bare_aad(mk, plaintext, logical_path, uuid, salt, nonce) ==
    IF Len(mk) # MASTER_KEY_LEN THEN Err("InvalidFormat")
    ELSE
      LET file_key == HkdfSha256(salt, mk, FILE_KEY_INFO)
          ciphertext == AeadSeal(file_key, nonce, logical_path, plaintext)
          hmac == Sha256(MAGIC_NUMBER \o <<VERSION>> \o <<CIPHER_ID>> \o uuid
                         \o salt \o file_key)
      IN  Ok([header |-> [magic |-> MAGIC_NUMBER, version |-> VERSION,
                          cipher_id |-> CIPHER_ID, uuid |-> uuid, salt |-> salt,
                          commitment_hmac |-> hmac, nonce |-> nonce],
              ciphertext |-> ciphertext])

\* encrypt_file that draws no nonce and encrypts under the zero nonce
encrypt_file_zero_nonce(mk, plaintext, logical_path, uuid, salt, nonce) ==
    IF Len(mk) # MASTER_KEY_LEN THEN Err("InvalidFormat")
    ELSE
      LET file_key == derive_storage_file_key(mk, salt)
          aad == build_aad(logical_path)
          ciphertext == AeadSeal(file_key, Fill(NONCE_LEN, 0), aad, plaintext)
          hmac == commitment(MAGIC_NUMBER, VERSION, CIPHER_ID, uuid, salt, file_key)
      IN  Ok([header |-> [magic |-> MAGIC_NUMBER, version |-> VERSION,
                          cipher_id |-> CIPHER_ID, uuid |-> uuid, salt |-> salt,
                          commitment_hmac |-> hmac, nonce |-> Fill(NONCE_LEN, 0)],
              ciphertext |-> ciphertext])

encrypt_file(mk, plaintext, logical_path, uuid, salt, nonce) ==
    IF Len(mk) # MASTER_KEY_LEN THEN Err("InvalidFormat")
    ELSE
      LET file_key == derive_storage_file_key(mk, salt)
          aad == build_aad(logical_path)
          ciphertext == AeadSeal(file_key, nonce, aad, plaintext)
          hmac == commitment(MAGIC_NUMBER, VERSION, CIPHER_ID, uuid, salt, file_key)
      IN  Ok([header |-> [magic |-> MAGIC_NUMBER, version |-> VERSION,
                          cipher_id |-> CIPHER_ID, uuid |-> uuid, salt |-> salt,
                          commitment_hmac |-> hmac, nonce |-> nonce],
              ciphertext |-> ciphertext])

\* decrypt_file that does not compare the commitment
decrypt_file_commitment_unchecked(mk, aether_file, logical_path) ==
    LET h == aether_file.header IN
    IF h.magic # MAGIC_NUMBER THEN Err("InvalidFormat")
    ELSE IF h.version # VERSION THEN Err("InvalidFormat")
    ELSE IF h.cipher_id # CIPHER_ID THEN Err("InvalidFormat")
    ELSE IF Len(mk) # MASTER_KEY_LEN THEN Err("InvalidFormat")
    ELSE
      LET file_key == derive_storage_file_key(mk, h.salt)
          opened == AeadOpen(file_key, h.nonce, build_aad(logical_path),
                             aether_file.ciphertext)
      IN  IF opened.ok THEN Ok(opened.val) ELSE Err("Crypto")

decrypt_file(mk, aether_file, logical_path) ==
    LET h == aether_file.header IN
    IF h.magic # MAGIC_NUMBER THEN Err("InvalidFormat")
    ELSE IF h.version # VERSION THEN Err("InvalidFormat")
    ELSE IF h.cipher_id # CIPHER_ID THEN Err("InvalidFormat")
    ELSE IF Len(mk) # MASTER_KEY_LEN THEN Err("InvalidFormat")
    ELSE
      LET file_key == derive_storage_file_key(mk, h.salt)
          computed_hmac == commitment(h.magic, h.version, h.cipher_id, h.uuid,
                                      h.salt, file_key)
      IN  IF computed_hmac # h.commitment_hmac THEN Err("InvalidFormat")
          ELSE LET opened == AeadOpen(file_key, h.nonce, build_aad(logical_path),
                                      aether_file.ciphertext)
               IN  IF opened.ok THEN Ok(opened.val) ELSE Err("Crypto")

-----------------------------------------------------------------------------
(* crypto/mod.rs and crypto/mkek.rs: the key hierarchy *)

derive_kek(password, salt) == Ok(Argon2id(password, salt))

\* encrypt_master_key writing the master key in front of the sealed payload
encrypt_master_key_with_plain_key(kek, mk, nonce) ==
    Ok([nonce |-> nonce, payload |-> mk \o AeadSeal(kek, nonce, MKEK_AAD, mk)])

encrypt_master_key(kek, mk, nonce) ==
    Ok([nonce |-> nonce, payload |-> AeadSeal(kek, nonce, MKEK_AAD, mk)])

\* decrypt_master_key returning the body without verifying the tag
decrypt_master_key_unverified(kek, mkek) == Ok(AeadBody(mkek.payload))

decrypt_master_key(kek, mkek) ==
    LET opened == AeadOpen(kek, mkek.nonce, MKEK_AAD, mkek.payload)
    IN  IF opened.ok THEN Ok(opened.val) ELSE Err("Aead")

\* KeyHierarchy::bootstrap; mk is the draw of generate_master_key
KeyHierarchy_bootstrap(password, salt, mk) ==
    LET kek == derive_kek(password, salt)
    IN  IF ~kek.ok THEN Err("InvalidPassword")
        ELSE Ok([kek |-> kek.val, master_key |-> mk])

KeyHierarchy_restore(password, salt, mkek_ciphertext) ==
    LET kek == derive_kek(password, salt)
    IN  IF ~kek.ok THEN Err("InvalidPassword")
        ELSE LET mk == decrypt_master_key(kek.val, mkek_ciphertext)
             IN  IF ~mk.ok THEN Err(mk.err)
                 ELSE Ok([kek |-> kek.val, master_key |-> mk.val])

\* seal_master_key sealing the KEK in place of the master key
seal_master_key_of_kek(hierarchy, nonce) ==
    Ok([nonce |-> nonce,
        payload |-> AeadSeal(hierarchy.kek, nonce, MKEK_AAD, hierarchy.kek)])

seal_master_key(hierarchy, nonce) ==
    encrypt_master_key(hierarchy.kek, hierarchy.master_key, nonce)

\* crypto_change_password deriving the new KEK under the old salt while
\* returning the new one
crypto_change_password_old_salt(req, new_salt, nonce) ==
    LET old_kek == Argon2id(req.old_password, req.old_password_salt)
        opened == AeadOpen(old_kek, req.old_mkek.nonce, MKEK_AAD, req.old_mkek.payload)
    IN  IF ~opened.ok THEN Err("OldPasswordIncorrect")
        ELSE Ok([new_password_salt |-> new_salt,
                 new_mkek |-> [nonce |-> nonce,
                               payload |-> AeadSeal(
                                   Argon2id(req.new_password, req.old_password_salt),
                                   nonce, MKEK_AAD, opened.val)]])

\* lib.rs crypto_change_password; new_salt and nonce are the OsRng draws
crypto_change_password(req, new_salt, nonce) ==
    LET old_hierarchy ==
            KeyHierarchy_restore(req.old_password, req.old_password_salt, req.old_mkek)
    IN  IF ~old_hierarchy.ok THEN Err("OldPasswordIncorrect")
        ELSE
          LET new_kek == derive_kek(req.new_password, new_salt)
          IN  IF ~new_kek.ok THEN Err("DeriveNewKek")
              ELSE
                LET new_mkek == encrypt_master_key(new_kek.val,
                                    old_hierarchy.val.master_key, nonce)
                IN  IF ~new_mkek.ok THEN Err("EncryptNewMkek")
                    ELSE Ok([new_password_salt |-> new_salt,
                             new_mkek |-> new_mkek.val])

-----------------------------------------------------------------------------
(* index/merkle.rs: the Merkle tree over the index entries.
   An entry is [id, logical_path, encrypted_size]. *)

\* hash_entry that leaves the size out of the leaf
hash_entry_without_size(e) ==
    Sha256(MERKLE_ENTRY \o e.id \o <<58>> \o e.logical_path \o <<58>>)

hash_entry(e) ==
    Sha256(MERKLE_ENTRY \o e.id \o <<58>> \o e.logical_path \o <<58>>
           \o U64Le(e.encrypted_size))

\* the leaf hashes left in the order the map iterates them
sort_hashes_skipped(hashes) == hashes

\* leaf_hashes.sort()
sort_hashes(hashes) ==
    LET keyed == [i \in DOMAIN hashes |->
                    [key |-> DigestBytes(hashes[i]), val |-> hashes[i]]]
        sorted == SortByKey(keyed)
    IN  [i \in DOMAIN sorted |-> sorted[i].val]

RECURSIVE build_tree(_)
build_tree(hashes) ==
    IF Len(hashes) = 1 THEN hashes[1]
    ELSE LET mid == Len(hashes) \div 2
             left == build_tree(SubSeq(hashes, 1, mid))
             right == build_tree(SubSeq(hashes, mid + 1, Len(hashes)))
         IN  Sha256(MERKLE_NODE \o left \o right)

\* MerkleTree::build pairing the leaf of a single entry with itself
MerkleTree_build_pairing_single(entries) ==
    IF entries = <<>> THEN Sha256(MERKLE_EMPTY)
    ELSE IF Len(entries) = 1
    THEN Sha256(MERKLE_NODE \o hash_entry(entries[1]) \o hash_entry(entries[1]))
    ELSE build_tree(sort_hashes([i \in DOMAIN entries |-> hash_entry(entries[i])]))

\* MerkleTree::build(..).root_hash(); entries is the map's content in the
\* order the HashMap iterates it
MerkleTree_build(entries) ==
    IF entries = <<>> THEN Sha256(MERKLE_EMPTY)
    ELSE build_tree(sort_hashes([i \in DOMAIN entries |-> hash_entry(entries[i])]))

-----------------------------------------------------------------------------
(* index/sqlcipher.rs: the encrypted index.
   The store is [rows, root]: rows maps each id of file_index to
   [logical_path, encrypted_size, hmac]; root is the value of the
   "merkle_root" row of index_metadata, <<>> when there is none.
   ord is the order in which a HashMap built from the rows iterates
   (a sequence holding every id once). *)

NoRows == [x \in {} |-> x]

derive_db_key(mk) == HkdfSha256(<<>>, mk, DB_KEY_INFO)

derive_hmac_key(mk) == HkdfSha256(<<>>, mk, HMAC_KEY_INFO)

compute_hmac(hmac_key, id, logical_path, encrypted_size) ==
    Sha256(id \o logical_path \o U64Le(encrypted_size) \o hmac_key)

\* the ids of the rows, in the order ord
RowIds(rows, ord) == SelectSeq(ord, LAMBDA id : id \in DOMAIN rows)

\* the value of the hmac column in a row written before the column existed
NULL == <<-10>>

\* row.get of the hmac column as Vec<u8>, and the comparison that follows it
RowError(rows, hmac_key, id) ==
    IF rows[id].hmac = NULL THEN "InvalidColumnType"
    ELSE IF rows[id].hmac # compute_hmac(hmac_key, id, rows[id].logical_path,
                                         rows[id].encrypted_size)
    THEN "InvalidQuery"
    ELSE "none"

RowHmacOk(rows, hmac_key, id) ==
    rows[id].hmac = compute_hmac(hmac_key, id, rows[id].logical_path,
                                 rows[id].encrypted_size)

\* list_all: ORDER BY logical_path, every row's HMAC verified; rows of equal
\* path come in the order ord
list_all(store, hmac_key, ord) ==
    LET ids == RowIds(store.rows, ord)
        keyed == [i \in DOMAIN ids |->
                    [key |-> store.rows[ids[i]].logical_path,
                     val |-> [id |-> ids[i],
                              logical_path |-> store.rows[ids[i]].logical_path,
                              encrypted_size |-> store.rows[ids[i]].encrypted_size]]]
        sorted == SortByKey(keyed)
        failed == {i \in DOMAIN sorted :
                     ~RowHmacOk(store.rows, hmac_key, sorted[i].val.id)}
    IN  IF failed # {}
        THEN Err(RowError(store.rows, hmac_key,
                          sorted[CHOOSE i \in failed :
                                    \A j \in failed : i <= j].val.id))
        ELSE Ok([i \in DOMAIN sorted |-> sorted[i].val])

\* the entries of list_all collected into a HashMap and iterated in order ord
MapEntries(listed, ord) ==
    LET ids == SelectSeq(ord, LAMBDA id : \E i \in DOMAIN listed : listed[i].id = id)
    IN  [k \in DOMAIN ids |->
            listed[CHOOSE i \in DOMAIN listed : listed[i].id = ids[k]]]

\* update_merkle_root: returns [ok, store]
update_merkle_root(store, hmac_key, ord) ==
    LET entries == list_all(store, hmac_key, ord)
    IN  IF ~entries.ok THEN [ok |-> FALSE, store |-> store]
        ELSE [ok |-> TRUE,
              store |-> [store EXCEPT
                           !.root = MerkleTree_build(MapEntries(entries.val, ord))]]

WithRow(rows, id, row) ==
    [x \in DOMAIN rows \cup {id} |-> IF x = id THEN row ELSE rows[x]]

WithoutRow(rows, id) == [x \in DOMAIN rows \ {id} |-> rows[x]]

\* upsert that writes the row and leaves the stored root as it is
upsert_without_root_update(store, hmac_key, id, meta, ord) ==
    [ok |-> TRUE,
     store |-> [store EXCEPT !.rows =
                  WithRow(store.rows, id,
                          [logical_path |-> meta.logical_path,
                           encrypted_size |-> meta.encrypted_size,
                           hmac |-> compute_hmac(hmac_key, id, meta.logical_path,
                                                 meta.encrypted_size)])]]

\* upsert: INSERT OR REPLACE, then update_merkle_root; returns [ok, store]
upsert(store, hmac_key, id, meta, ord) ==
    LET hmac == compute_hmac(hmac_key, id, meta.logical_path, meta.encrypted_size)
        written == [store EXCEPT !.rows =
                      WithRow(store.rows, id,
                              [logical_path |-> meta.logical_path,
                               encrypted_size |-> meta.encrypted_size,
                               hmac |-> hmac])]
    IN  update_merkle_root(written, hmac_key, ord)

\* remove that deletes the row and leaves the stored root as it is
remove_without_root_update(store, hmac_key, id, ord) ==
    [ok |-> TRUE,
     store |-> [store EXCEPT !.rows = [x \in DOMAIN store.rows \ {id} |-> store.rows[x]]]]

\* remove: DELETE, then update_merkle_root; returns [ok, store]
remove(store, hmac_key, id, ord) ==
    update_merkle_root([store EXCEPT !.rows = WithoutRow(store.rows, id)],
                       hmac_key, ord)

\* get verifying the HMAC over the id and the path alone
get_hmac_without_size(store, hmac_key, id) ==
    IF id \notin DOMAIN store.rows THEN Ok(<<>>)
    ELSE IF store.rows[id].hmac # compute_hmac(hmac_key, id,
                                               store.rows[id].logical_path, 0)
    THEN Err("InvalidQuery")
    ELSE Ok(<<[logical_path |-> store.rows[id].logical_path,
               encrypted_size |-> store.rows[id].encrypted_size]>>)

\* get: the row's metadata with its HMAC verified, <<>> for None
get(store, hmac_key, id) ==
    IF id \notin DOMAIN store.rows THEN Ok(<<>>)
    ELSE IF ~RowHmacOk(store.rows, hmac_key, id)
    THEN Err(RowError(store.rows, hmac_key, id))
    ELSE Ok(<<[logical_path |-> store.rows[id].logical_path,
               encrypted_size |-> store.rows[id].encrypted_size]>>)

index_len(store) == Cardinality(DOMAIN store.rows)

\* verify_integrity: the root rebuilt from list_all against the stored one
verify_integrity(store, hmac_key, ord) ==
    LET entries == list_all(store, hmac_key, ord)
    IN  IF ~entries.ok THEN Err("InvalidQuery")
        ELSE IF store.root # <<>>
             THEN Ok(MerkleTree_build(MapEntries(entries.val, ord)) = store.root)
             ELSE Ok(entries.val = <<>>)

get_merkle_root(store) == store.root

-----------------------------------------------------------------------------
(* Input domains *)

MasterKeys == {Fill(MASTER_KEY_LEN, k) : k \in 1..NumKeys}
Uuids == {Fill(UUID_LEN, k) : k \in 1..NumRandom}
FileSalts == {Fill(SALT_LEN, k) : k \in 1..NumRandom}
Nonces == {Fill(NONCE_LEN, k) : k \in 1..NumRandom}
Plaintexts == {<<>>, <<72, 105>>, <<72, 105, 33>>}
Paths == {<<47, 97>>, <<47, 98>>, <<47, 97, 47, 98>>}
Passwords == {<<112, 48 + k>> : k \in 1..NumPasswords}
IndexMasterKey == Fill(MASTER_KEY_LEN, 42)
IndexIds == {<<102, 49>>, <<102, 50>>, <<102, 51>>}
IndexMetas ==
    {[logical_path |-> <<47, 97>>, encrypted_size |-> 1024],
     [logical_path |-> <<47, 97>>, encrypted_size |-> 2048],
     [logical_path |-> <<47, 98>>, encrypted_size |-> 1024]}
PairMetas ==
    {[logical_path |-> <<47, 97>>, encrypted_size |-> 1024],
     [logical_path |-> <<47, 98>>, encrypted_size |-> 2048]}
IndexOrders == AllOrders(IndexIds)
PasswordSalts == {Fill(PASSWORD_SALT_LEN, k) : k \in 1..NumRandom}

-----------------------------------------------------------------------------
(* SpecStorage: encrypt_file then decrypt_file on drawn inputs *)

\* The variables of the other specifications keep these values
StParked == st = [pc |-> "off"]

KhParked == kh = [pc |-> "off"]

AppParked ==
    /\ master_key = <<>> /\ storj_client = FALSE /\ db = [exists |-> FALSE]
    /\ remote = {} /\ resp = [op |-> "none"]

IdxParked == idx = <<>>

StorageInit ==
    /\ \E mk \in MasterKeys, p \in Plaintexts, path \in Paths :
          st = [pc |-> "start", mk |-> mk, plaintext |-> p, path |-> path,
                enc |-> Err("none"), mk2 |-> mk, path2 |-> path,
                dec |-> Err("none")]
    /\ KhParked /\ AppParked /\ IdxParked

StEncrypt ==
    /\ st.pc = "start"
    /\ \E uuid \in Uuids, salt \in FileSalts, nonce \in Nonces :
          st' = [st EXCEPT !.pc = "encrypted",
                  !.enc = encrypt_file(st.mk, st.plaintext, st.path, uuid, salt, nonce)]
    /\ UNCHANGED <<kh, appVars, idx>>

StDecrypt ==
    /\ st.pc = "encrypted"
    /\ st.enc.ok
    /\ \E mk2 \in MasterKeys, path2 \in Paths :
          st' = [st EXCEPT !.pc = "decrypted", !.mk2 = mk2, !.path2 = path2,
                  !.dec = decrypt_file(mk2, st.enc.val, path2)]
    /\ UNCHANGED <<kh, appVars, idx>>

StorageNext == StEncrypt \/ StDecrypt

SpecStorage == StorageInit /\ [][StorageNext]_vars

-----------------------------------------------------------------------------
(* SpecKeys: bootstrap, seal, change_password and restore on one vault.
   kh.password, kh.salt and kh.mkek are the credentials the user holds (the
   latest ones a bootstrap or a successful change_password returned); kh.mk0
   records the master key the bootstrap generated. *)

KeysInit ==
    /\ kh = [pc |-> "start", password |-> <<>>, salt |-> <<>>,
             mkek |-> [nonce |-> <<>>, payload |-> <<>>], mk0 |-> <<>>,
             changes |-> 0, tried |-> <<>>, restored |-> Err("none"),
             changed |-> Err("none")]
    /\ StParked /\ AppParked /\ IdxParked

KhBootstrap ==
    /\ kh.pc = "start"
    /\ \E password \in Passwords, salt \in PasswordSalts, mk \in MasterKeys,
          nonce \in Nonces :
          LET hierarchy == KeyHierarchy_bootstrap(password, salt, mk)
              mkek == seal_master_key(hierarchy.val, nonce)
          IN  /\ hierarchy.ok /\ mkek.ok
              /\ kh' = [kh EXCEPT !.pc = "sealed", !.password = password,
                          !.salt = salt, !.mkek = mkek.val,
                          !.mk0 = hierarchy.val.master_key]
    /\ UNCHANGED <<st, appVars, idx>>

KhChangePassword ==
    /\ kh.pc \in {"sealed", "restored"}
    /\ kh.changes < MaxChanges
    /\ \E old \in Passwords, new \in Passwords, new_salt \in PasswordSalts,
          nonce \in Nonces :
          LET r == crypto_change_password(
                       [old_password |-> old, new_password |-> new,
                        old_password_salt |-> kh.salt, old_mkek |-> kh.mkek],
                       new_salt, nonce)
          IN  kh' = IF r.ok
                    THEN [kh EXCEPT !.pc = "sealed", !.password = new,
                            !.salt = r.val.new_password_salt,
                            !.mkek = r.val.new_mkek,
                            !.changes = kh.changes + 1, !.tried = old,
                            !.changed = r, !.restored = Err("none")]
                    ELSE [kh EXCEPT !.tried = old, !.changed = r]
    /\ UNCHANGED <<st, appVars, idx>>

KhRestore ==
    /\ kh.pc = "sealed"
    /\ \E password \in Passwords :
          kh' = [kh EXCEPT !.pc = "restored", !.tried = password,
                  !.restored = KeyHierarchy_restore(password, kh.salt, kh.mkek)]
    /\ UNCHANGED <<st, appVars, idx>>

KeysNext == KhBootstrap \/ KhChangePassword \/ KhRestore

SpecKeys == KeysInit /\ [][KeysNext]_vars

-----------------------------------------------------------------------------
(* SpecIndex: upserts and removes on one freshly opened index.
   idx[h].last tells what the last operation on h did. *)

FreshStore == [rows |-> NoRows, root |-> <<>>, trash |-> NoRows]

IndexHmacKey == derive_hmac_key(IndexMasterKey)

IndexInit ==
    /\ idx = [h \in {"A"} |-> [store |-> FreshStore, last |-> "none"]]
    /\ StParked /\ KhParked /\ AppParked

IxUpsert ==
    /\ \E id \in IndexIds, meta \in IndexMetas, ord \in IndexOrders :
          LET r == upsert(idx["A"].store, IndexHmacKey, id, meta, ord)
          IN  /\ r.ok
              /\ idx' = [idx EXCEPT !["A"] =
                           [store |-> r.store,
                            last |-> IF id \in DOMAIN idx["A"].store.rows
                                     THEN "replace" ELSE "insert"]]
    /\ UNCHANGED <<st, kh, appVars>>

IxRemove ==
    /\ \E id \in IndexIds, ord \in IndexOrders :
          LET r == remove(idx["A"].store, IndexHmacKey, id, ord)
          IN  /\ r.ok
              /\ idx' = [idx EXCEPT !["A"] =
                           [store |-> r.store,
                            last |-> IF id \in DOMAIN idx["A"].store.rows
                                     THEN "remove" ELSE "remove_absent"]]
    /\ UNCHANGED <<st, kh, appVars>>

IndexNext == IxUpsert \/ IxRemove

SpecIndex == IndexInit /\ [][IndexNext]_vars

-----------------------------------------------------------------------------
(* SpecIndexPair: two freshly opened indexes (two files, the same master
   key), each taking its own sequence of upserts and removes. *)

PairInit ==
    /\ idx = [h \in {"A", "B"} |-> [store |-> FreshStore, last |-> "none"]]
    /\ StParked /\ KhParked /\ AppParked

PairUpsert ==
    /\ \E h \in {"A", "B"}, id \in IndexIds, meta \in PairMetas,
          ord \in IndexOrders :
          LET r == upsert(idx[h].store, IndexHmacKey, id, meta, ord)
          IN  /\ r.ok
              /\ idx' = [idx EXCEPT ![h].store = r.store]
    /\ UNCHANGED <<st, kh, appVars>>

PairRemove ==
    /\ \E h \in {"A", "B"}, id \in IndexIds, ord \in IndexOrders :
          LET r == remove(idx[h].store, IndexHmacKey, id, ord)
          IN  /\ r.ok
              /\ idx' = [idx EXCEPT ![h].store = r.store]
    /\ UNCHANGED <<st, kh, appVars>>

PairNext == PairUpsert \/ PairRemove

SpecIndexPair == PairInit /\ [][PairNext]_vars

-----------------------------------------------------------------------------
(* lib.rs: the application session.  master_key is AppState.master_key
   (<<>> is None), storj_client is AppState.storj_client (FALSE is None), db
   is the index file index.db, remote is the set of object keys of the
   bucket, resp is the response of the last command. *)

\* hex::encode
HexDigit(d) == IF d < 10 THEN 48 + d ELSE 87 + d

hex_encode(bytes) ==
    [i \in 1..(2 * Len(bytes)) |->
        HexDigit(IF i % 2 = 1 THEN bytes[(i + 1) \div 2] \div 16
                 ELSE bytes[i \div 2] % 16)]

\* hex::decode
HexValue(c) ==
    IF c \in 48..57 THEN c - 48
    ELSE IF c \in 97..102 THEN c - 87
    ELSE IF c \in 65..70 THEN c - 55
    ELSE -1

hex_decode(s) ==
    IF Len(s) % 2 # 0 \/ \E i \in 1..Len(s) : HexValue(s[i]) < 0
    THEN Err("InvalidHex")
    ELSE Ok([i \in 1..(Len(s) \div 2) |->
                16 * HexValue(s[2 * i - 1]) + HexValue(s[2 * i])])

\* str::replace("//", "/"): one pass from the left, matches do not overlap
RECURSIVE ReplaceDoubleSlash(_)
ReplaceDoubleSlash(s) ==
    IF Len(s) < 2 THEN s
    ELSE IF s[1] = 47 /\ s[2] = 47
         THEN <<47>> \o ReplaceDoubleSlash(SubSeq(s, 3, Len(s)))
         ELSE <<s[1]>> \o ReplaceDoubleSlash(Tail(s))

normalize_path(path) ==
    LET normalized == ReplaceDoubleSlash(path)
    IN  IF normalized = <<>> \/ normalized[1] # 47 THEN <<47>> \o normalized
        ELSE normalized

\* str::trim_end_matches('/')
RECURSIVE TrimEndSlashes(_)
TrimEndSlashes(s) ==
    IF s # <<>> /\ s[Len(s)] = 47 THEN TrimEndSlashes(SubSeq(s, 1, Len(s) - 1))
    ELSE s

\* aether_format.rs: the serialized envelope.  The header fields sit at their
\* fixed offsets, then the 8-byte length, then the ciphertext; the model keeps
\* the fields apart and carries the byte length of the whole.
HEADER_SIZE == 110
LEN_SIZE == 8

\* the byte length of an AEAD ciphertext: the message and the 16-byte tag
CiphertextLen(ct) == Len(AeadBody(ct)) + 16

\* u64::to_le_bytes, byte by byte: the k low bytes of n
RECURSIVE LeBytes(_, _)
LeBytes(n, k) == IF k = 0 THEN <<>> ELSE <<n % 256>> \o LeBytes(n \div 256, k - 1)

to_le_bytes(n) == LeBytes(n, LEN_SIZE)

\* usize addition on little-endian bytes: the sum modulo 2^64 and whether a
\* carry leaves the last byte
RECURSIVE AddLe(_, _, _)
AddLe(a, b, carry) ==
    IF a = <<>> THEN [bytes |-> <<>>, overflow |-> carry = 1]
    ELSE LET sum == a[1] + b[1] + carry
             rest == AddLe(Tail(a), Tail(b), sum \div 256)
         IN  [bytes |-> <<sum % 256>> \o rest.bytes, overflow |-> rest.overflow]

\* a < b on little-endian bytes of equal length
RECURSIVE LessLe(_, _)
LessLe(a, b) ==
    IF a = <<>> THEN FALSE
    ELSE IF a[Len(a)] # b[Len(b)] THEN a[Len(a)] < b[Len(b)]
    ELSE LessLe(SubSeq(a, 1, Len(a) - 1), SubSeq(b, 1, Len(b) - 1))

\* u64::from_le_bytes of a length that fits the bytes at hand
RECURSIVE FromLe(_)
FromLe(b) == IF b = <<>> THEN 0 ELSE b[1] + 256 * FromLe(Tail(b))

\* the length check of from_bytes on data_len bytes declaring ciphertext_len:
\* "short" when data.len() < offset + ciphertext_len, "panic" when the sum
\* leaves usize (overflow check of a debug build; in a release build the sum
\* wraps below offset and the slice offset..offset + ciphertext_len panics)
LengthCheck(data_len, ciphertext_len_bytes) ==
    LET end == AddLe(to_le_bytes(HEADER_SIZE + LEN_SIZE), ciphertext_len_bytes, 0)
    IN  IF end.overflow THEN "panic"
        ELSE IF LessLe(to_le_bytes(data_len), end.bytes) THEN "short"
        ELSE "fits"

\* the first n bytes of an AEAD ciphertext: the ciphertext itself, or a
\* string that is no output of the cipher
TakeCiphertext(ct, n) == IF n = CiphertextLen(ct) THEN ct ELSE <<-9, n>> \o ct

to_bytes(aether_file) ==
    [header |-> aether_file.header,
     ciphertext_len |-> to_le_bytes(CiphertextLen(aether_file.ciphertext)),
     ciphertext |-> aether_file.ciphertext,
     len |-> HEADER_SIZE + LEN_SIZE + CiphertextLen(aether_file.ciphertext)]

from_bytes(data) ==
    IF data.len < HEADER_SIZE + LEN_SIZE THEN Err("InvalidHeader")
    ELSE LET fit == LengthCheck(data.len, data.ciphertext_len)
         IN  IF fit = "panic" THEN Err("Panic")
             ELSE IF fit = "short" THEN Err("InvalidHeader")
             ELSE Ok([header |-> data.header,
                      ciphertext |-> TakeCiphertext(data.ciphertext,
                                                    FromLe(data.ciphertext_len))])

\* serialized bytes cut off after n bytes
Truncated(data, n) == [data EXCEPT !.len = n]

\* The trash tier of the index (move_to_trash, restore_from_trash,
\* remove_from_trash, empty_trash), which lib.rs calls on SqlCipherIndex:
\* a separate table of (file_id, logical_path, encrypted_size, deleted_at,
\* row MAC); trash rows are not counted in the Merkle root.
move_to_trash(store, hmac_key, id, meta, deleted_at, ord) ==
    update_merkle_root(
        [store EXCEPT
           !.rows = WithoutRow(store.rows, id),
           !.trash = WithRow(store.trash, id,
                        [logical_path |-> meta.logical_path,
                         encrypted_size |-> meta.encrypted_size,
                         deleted_at |-> deleted_at,
                         hmac |-> compute_hmac(hmac_key, id, meta.logical_path,
                                               meta.encrypted_size)])],
        hmac_key, ord)

index_restore_from_trash(store, hmac_key, id, ord) ==
    IF id \notin DOMAIN store.trash THEN [ok |-> FALSE, store |-> store]
    ELSE upsert([store EXCEPT !.trash = WithoutRow(store.trash, id)], hmac_key, id,
                [logical_path |-> store.trash[id].logical_path,
                 encrypted_size |-> store.trash[id].encrypted_size], ord)

index_list_trash(store) == DOMAIN store.trash

remove_from_trash(store, id) ==
    [store EXCEPT !.trash = WithoutRow(store.trash, id)]

index_empty_trash(store) == [store EXCEPT !.trash = NoRows]

\* index.db: absent, or a SQLCipher file under key with its tables
NoDb == [exists |-> FALSE, key |-> <<>>, user_version |-> 0, store |-> FreshStore]

\* ALTER TABLE file_index ADD COLUMN hmac BLOB: the rows of a table without
\* the column get NULL in it; on a table that has the column the statement
\* fails and the failure is dropped
AddHmacColumn(rows) ==
    [id \in DOMAIN rows |->
        IF "hmac" \in DOMAIN rows[id] THEN rows[id]
        ELSE [logical_path |-> rows[id].logical_path,
              encrypted_size |-> rows[id].encrypted_size,
              hmac |-> NULL]]

\* the migration of open and open_existing: below SCHEMA_VERSION the column
\* is added, and user_version is set to SCHEMA_VERSION
open_existing(d) ==
    [d EXCEPT !.store.rows = IF d.user_version < SCHEMA_VERSION
                             THEN AddHmacColumn(@) ELSE @,
              !.user_version = SCHEMA_VERSION]

\* SqlCipherIndex::open creating a new base over the file it finds
SqlCipherIndex_open_recreating(d, mk, detects) ==
    IF Len(mk) # DB_KEY_LEN
    THEN [ok |-> FALSE, db |-> d, hmac_key |-> <<>>, err |-> "InvalidQuery"]
    ELSE [ok |-> TRUE,
          db |-> [exists |-> TRUE, key |-> derive_db_key(mk),
                  user_version |-> SCHEMA_VERSION, store |-> FreshStore],
          hmac_key |-> derive_hmac_key(mk), err |-> "none"]

\* SqlCipherIndex::open.  On a file that another key encrypts, detects tells
\* whether one of the probe queries fails (the file is then removed and a
\* new base created) or they pass and open_existing fails on the schema.
SqlCipherIndex_open(d, mk, detects) ==
    IF Len(mk) # DB_KEY_LEN
    THEN [ok |-> FALSE, db |-> d, hmac_key |-> <<>>, err |-> "InvalidQuery"]
    ELSE
      LET created == [exists |-> TRUE, key |-> derive_db_key(mk),
                      user_version |-> SCHEMA_VERSION, store |-> FreshStore]
      IN  IF ~d.exists
          THEN [ok |-> TRUE, db |-> created, hmac_key |-> derive_hmac_key(mk),
                err |-> "none"]
          ELSE IF d.key = derive_db_key(mk)
          THEN [ok |-> TRUE, db |-> open_existing(d),
                hmac_key |-> derive_hmac_key(mk), err |-> "none"]
          ELSE IF detects
          THEN [ok |-> TRUE, db |-> created, hmac_key |-> derive_hmac_key(mk),
                err |-> "none"]
          ELSE [ok |-> FALSE, db |-> d, hmac_key |-> <<>>, err |-> "NotADatabase"]

\* the outcomes of the probe queries that the file and the key allow
Detections(d, mk) ==
    IF d.exists /\ Len(mk) = DB_KEY_LEN /\ d.key # derive_db_key(mk)
    THEN BOOLEAN ELSE {FALSE}

open_index_with_state(slot, d, detects) ==
    IF slot = <<>>
    THEN [ok |-> FALSE, db |-> d, hmac_key |-> <<>>, err |-> "Locked"]
    ELSE LET opened == SqlCipherIndex_open(d, slot, detects)
         IN  IF opened.ok THEN opened ELSE [opened EXCEPT !.err = "OpenFailed"]

get_master_key_from_state(slot) ==
    IF slot = <<>> THEN Err("Locked") ELSE Ok(slot)

Resp(op, err) == [op |-> op, ok |-> err = "none", err |-> err]

\* Inputs of the commands
AppPasswordSalt == Fill(PASSWORD_SALT_LEN, 1)
AppNonce == Fill(NONCE_LEN, 1)
AppFileSalt == Fill(SALT_LEN, 1)
AppPasswords == {<<112, 49>>, <<112, 50>>}
AppMasterKeys == {Fill(MASTER_KEY_LEN, 1), Fill(MASTER_KEY_LEN, 2)}
AppUuids == {Fill(UUID_LEN, 1)}
AppData == <<72, 105>>
AppPath == <<47, 97>>
AppIds == {hex_encode(u) : u \in AppUuids} \cup {<<102, 49>>}
AddRequests ==
    {[file_id |-> id, logical_path |-> <<47, 98>>, encrypted_size |-> 1024] :
        id \in AppIds}
FolderNames == {<<>>, <<100>>, <<100, 47>>}
ParentPaths == {<<>>, <<<<47, 47>>>>}
DeleteUuids == AppUuids \cup {<<1>>}
TrashIds == AppIds \cup {<<122, 122>>}
DeletedAt == 1700000000
AppOrders == AllOrders(AppIds)

\* an unlock request: password tried against the MKEK that sealed mk under
\* sealing_password
UnlockRequest(password, sealing_password, mk) ==
    [password |-> password, password_salt |-> AppPasswordSalt,
     mkek |-> encrypt_master_key(derive_kek(sealing_password, AppPasswordSalt).val,
                                 mk, AppNonce).val]

\* the requests whose password is not the one that sealed the MKEK, and the
\* requests whose password is
WrongPassphraseRequests ==
    {UnlockRequest(p, sp, mk) : <<p, sp, mk>> \in
        {t \in AppPasswords \X AppPasswords \X AppMasterKeys : t[1] # t[2]}}

RightPassphraseRequests ==
    {UnlockRequest(p, p, mk) : <<p, mk>> \in AppPasswords \X AppMasterKeys}

\* requests with the right passphrase whose MKEK seals 16 bytes
ShortKeyRequests ==
    {UnlockRequest(p, p, Fill(16, 1)) : p \in AppPasswords}

\* the serialized envelope of AppData under mk and AppPath
EncryptedData(mk, uuid) ==
    to_bytes(encrypt_file(mk, AppData, AppPath, uuid, AppFileSalt, AppNonce).val)

\* the byte strings handed to the commands that parse an envelope: whole
\* envelopes, and envelopes cut off in the length field
EncryptedInputs ==
    {EncryptedData(mk, uuid) : <<mk, uuid>> \in AppMasterKeys \X AppUuids}
        \cup {Truncated(EncryptedData(mk, uuid), HEADER_SIZE) :
                 <<mk, uuid>> \in AppMasterKeys \X AppUuids}

\* a fresh draw of 16 random bytes names no object the vault already knows
FreshUuid(uuid) ==
    LET id == hex_encode(uuid)
    IN  /\ id \notin DOMAIN db.store.rows
        /\ id \notin DOMAIN db.store.trash
        /\ id \notin remote

Init ==
    /\ master_key = <<>>
    /\ storj_client = FALSE
    /\ db = NoDb
    /\ remote = {}
    /\ resp = Resp("run", "none")
    /\ StParked /\ KhParked /\ IdxParked

\* run: the process starts (after an exit) with both slots None
run ==
    /\ master_key' = <<>>
    /\ storj_client' = FALSE
    /\ resp' = Resp("run", "none")
    /\ UNCHANGED <<db, remote, st, kh, idx>>

crypto_bootstrap(password, mk) ==
    LET hierarchy == KeyHierarchy_bootstrap(password, AppPasswordSalt, mk)
        mkek == seal_master_key(hierarchy.val, AppNonce)
        \* an existing file is removed before the index is opened
        opened == SqlCipherIndex_open(NoDb, mk, FALSE)
    IN  /\ UNCHANGED <<storj_client, remote, st, kh, idx>>
        /\ IF ~hierarchy.ok \/ ~mkek.ok \/ Len(mk) # MASTER_KEY_LEN
           THEN /\ resp' = Resp("crypto_bootstrap", "Crypto")
                /\ UNCHANGED <<master_key, db>>
           ELSE IF ~opened.ok
           THEN /\ resp' = Resp("crypto_bootstrap", "OpenFailed")
                /\ db' = opened.db
                /\ UNCHANGED master_key
           ELSE /\ resp' = Resp("crypto_bootstrap", "none")
                /\ db' = opened.db
                /\ master_key' = mk

reset_local_database ==
    /\ db' = NoDb
    /\ resp' = Resp("reset_local_database", "none")
    /\ UNCHANGED <<master_key, storj_client, remote, st, kh, idx>>

\* crypto_unlock storing the restored master key before it opens the index
crypto_unlock_storing_first(req, detects) ==
    LET hierarchy == KeyHierarchy_restore(req.password, req.password_salt, req.mkek)
        opened == SqlCipherIndex_open(db, hierarchy.val.master_key, detects)
    IN  /\ UNCHANGED <<storj_client, remote, st, kh, idx>>
        /\ IF ~hierarchy.ok
           THEN /\ resp' = Resp("crypto_unlock", hierarchy.err)
                /\ UNCHANGED <<master_key, db>>
           ELSE IF ~opened.ok
           THEN /\ resp' = Resp("crypto_unlock", "OpenFailed")
                /\ db' = opened.db
                /\ master_key' = hierarchy.val.master_key
           ELSE /\ resp' = Resp("crypto_unlock", "none")
                /\ db' = opened.db
                /\ master_key' = hierarchy.val.master_key

crypto_unlock(req, detects) ==
    LET hierarchy == KeyHierarchy_restore(req.password, req.password_salt, req.mkek)
        opened == SqlCipherIndex_open(db, hierarchy.val.master_key, detects)
    IN  /\ UNCHANGED <<storj_client, remote, st, kh, idx>>
        /\ IF ~hierarchy.ok
           THEN /\ resp' = Resp("crypto_unlock", hierarchy.err)
                /\ UNCHANGED <<master_key, db>>
           ELSE IF ~opened.ok
           THEN /\ resp' = Resp("crypto_unlock", "OpenFailed")
                /\ db' = opened.db
                /\ UNCHANGED master_key
           ELSE /\ resp' = Resp("crypto_unlock", "none")
                /\ db' = opened.db
                /\ master_key' = hierarchy.val.master_key

\* a change-password request: old_password tried against the MKEK that sealed
\* mk under sealing_password
ChangePasswordRequest(old_password, sealing_password, mk, new_password) ==
    [old_password |-> old_password, new_password |-> new_password,
     old_password_salt |-> AppPasswordSalt,
     old_mkek |-> UnlockRequest(old_password, sealing_password, mk).mkek]

ChangePasswordRequests ==
    {ChangePasswordRequest(t[1], t[2], t[3], t[4]) :
        t \in AppPasswords \X AppPasswords \X AppMasterKeys \X AppPasswords}

\* the salt random_password_salt draws for the new pair
AppNewPasswordSalt == Fill(PASSWORD_SALT_LEN, 2)

\* crypto_change_password keeping the master key it restored in the session
\* slot, as crypto_unlock does
change_password_unlocking(req, new_salt, nonce) ==
    LET changed == crypto_change_password(req, new_salt, nonce)
        old_hierarchy ==
            KeyHierarchy_restore(req.old_password, req.old_password_salt, req.old_mkek)
    IN  /\ resp' = Resp("crypto_change_password", changed.err)
        /\ master_key' = IF changed.ok THEN old_hierarchy.val.master_key
                         ELSE master_key
        /\ UNCHANGED <<storj_client, db, remote, st, kh, idx>>

\* the command crypto_change_password: it is handed the request alone, neither
\* the session state nor the application handle
change_password(req, new_salt, nonce) ==
    LET changed == crypto_change_password(req, new_salt, nonce)
    IN  /\ resp' = Resp("crypto_change_password", changed.err)
        /\ UNCHANGED <<master_key, storj_client, db, remote, st, kh, idx>>

\* lock is no command of the invoke handler: the call is rejected
lock ==
    /\ resp' = Resp("lock", "CommandNotFound")
    /\ UNCHANGED <<master_key, storj_client, db, remote, st, kh, idx>>

index_add_file(req, ord, detects) ==
    LET index == open_index_with_state(master_key, db, detects)
        r == upsert(index.db.store, index.hmac_key, req.file_id,
                    [logical_path |-> req.logical_path,
                     encrypted_size |-> req.encrypted_size], ord)
    IN  /\ UNCHANGED <<master_key, storj_client, remote, st, kh, idx>>
        /\ IF ~index.ok
           THEN /\ resp' = Resp("index_add_file", index.err)
                /\ db' = index.db
           ELSE /\ resp' = Resp("index_add_file",
                                IF r.ok THEN "none" ELSE "InvalidQuery")
                /\ db' = [index.db EXCEPT !.store = r.store]

index_list_files(ord, detects) ==
    LET index == open_index_with_state(master_key, db, detects)
        entries == list_all(index.db.store, index.hmac_key, ord)
    IN  /\ UNCHANGED <<master_key, storj_client, remote, st, kh, idx>>
        /\ db' = index.db
        /\ resp' = Resp("index_list_files",
                        IF ~index.ok THEN index.err
                        ELSE IF entries.ok THEN "none" ELSE "InvalidQuery")

index_get_file(file_id, detects) ==
    LET index == open_index_with_state(master_key, db, detects)
        metadata == get(index.db.store, index.hmac_key, file_id)
    IN  /\ UNCHANGED <<master_key, storj_client, remote, st, kh, idx>>
        /\ db' = index.db
        /\ resp' = Resp("index_get_file",
                        IF ~index.ok THEN index.err
                        ELSE IF metadata.ok THEN "none" ELSE "InvalidQuery")

index_remove_file(file_id, ord, detects) ==
    LET index == open_index_with_state(master_key, db, detects)
        r == remove(index.db.store, index.hmac_key, file_id, ord)
    IN  /\ UNCHANGED <<master_key, storj_client, remote, st, kh, idx>>
        /\ IF ~index.ok
           THEN /\ resp' = Resp("index_remove_file", index.err)
                /\ db' = index.db
           ELSE /\ resp' = Resp("index_remove_file",
                                IF r.ok THEN "none" ELSE "InvalidQuery")
                /\ db' = [index.db EXCEPT !.store = r.store]

index_verify_integrity(ord, detects) ==
    LET index == open_index_with_state(master_key, db, detects)
        is_valid == verify_integrity(index.db.store, index.hmac_key, ord)
    IN  /\ UNCHANGED <<master_key, storj_client, remote, st, kh, idx>>
        /\ db' = index.db
        /\ resp' = Resp("index_verify_integrity",
                        IF ~index.ok THEN index.err
                        ELSE IF ~is_valid.ok THEN "InvalidQuery"
                        ELSE IF is_valid.val THEN "none" ELSE "none:false")

create_folder(folder_name, parent_path, uuid_bytes, ord, detects) ==
    LET parent == IF parent_path = <<>> THEN <<47>> ELSE parent_path[1]
        parent_normalized == normalize_path(parent)
        folder_id == hex_encode(uuid_bytes)
        folder_path == IF parent_normalized = <<47>>
                       THEN <<47>> \o folder_name \o <<47>>
                       ELSE parent_normalized \o <<47>> \o folder_name \o <<47>>
        index_check == open_index_with_state(master_key, db, detects)
        all_entries == list_all(index_check.db.store, index_check.hmac_key, ord)
        index == open_index_with_state(master_key, index_check.db, detects)
        r == upsert(index.db.store, index.hmac_key, folder_id,
                    [logical_path |-> folder_path, encrypted_size |-> 0], ord)
    IN  /\ UNCHANGED <<master_key, storj_client, remote, st, kh, idx>>
        /\ IF folder_name = <<>> \/ \E i \in 1..Len(folder_name) : folder_name[i] = 47
           THEN /\ resp' = Resp("create_folder", "InvalidName")
                /\ UNCHANGED db
           ELSE IF ~index_check.ok
           THEN /\ resp' = Resp("create_folder", index_check.err)
                /\ db' = index_check.db
           ELSE IF ~all_entries.ok
           THEN /\ resp' = Resp("create_folder", "InvalidQuery")
                /\ db' = index_check.db
           ELSE IF \E i \in 1..Len(all_entries.val) :
                      normalize_path(all_entries.val[i].logical_path)
                          \in {folder_path, TrimEndSlashes(folder_path)}
           THEN /\ resp' = Resp("create_folder", "Exists")
                /\ db' = index_check.db
           ELSE IF ~index.ok
           THEN /\ resp' = Resp("create_folder", index.err)
                /\ db' = index.db
           ELSE /\ resp' = Resp("create_folder",
                                IF r.ok THEN "none" ELSE "InvalidQuery")
                /\ db' = [index.db EXCEPT !.store = r.store]

storage_encrypt_file(data, logical_path, uuid, salt, nonce, ord, detects) ==
    LET aether_file == encrypt_file(master_key, data, logical_path, uuid, salt, nonce)
        serialized == to_bytes(aether_file.val)
        file_id == hex_encode(aether_file.val.header.uuid)
        index == open_index_with_state(master_key, db, detects)
        r == upsert(index.db.store, index.hmac_key, file_id,
                    [logical_path |-> logical_path,
                     encrypted_size |-> serialized.len], ord)
    IN  /\ UNCHANGED <<master_key, storj_client, remote, st, kh, idx>>
        /\ IF master_key = <<>>
           THEN /\ resp' = Resp("storage_encrypt_file", "Locked")
                /\ UNCHANGED db
           ELSE IF ~aether_file.ok
           THEN /\ resp' = Resp("storage_encrypt_file", aether_file.err)
                /\ UNCHANGED db
           ELSE /\ resp' = Resp("storage_encrypt_file", "none")
                \* a failure to open the index or to upsert is only logged
                /\ db' = IF index.ok THEN [index.db EXCEPT !.store = r.store]
                         ELSE index.db

storage_decrypt_file(encrypted_data, logical_path) ==
    LET mk == get_master_key_from_state(master_key)
        aether_file == from_bytes(encrypted_data)
        plaintext == decrypt_file(mk.val, aether_file.val, logical_path)
    IN  /\ UNCHANGED <<master_key, storj_client, db, remote, st, kh, idx>>
        /\ resp' = Resp("storage_decrypt_file",
                        IF ~mk.ok THEN mk.err
                        ELSE IF ~aether_file.ok THEN "Parse"
                        ELSE IF ~plaintext.ok THEN plaintext.err
                        ELSE "none")

\* StorjClient::new succeeds or fails
storj_configure(created) ==
    /\ storj_client' = IF created THEN TRUE ELSE storj_client
    /\ resp' = Resp("storj_configure", IF created THEN "none" ELSE "Remote")
    /\ UNCHANGED <<master_key, db, remote, st, kh, idx>>

\* uploaded tells whether the PUT to the bucket succeeds
storj_upload_file(encrypted_data, logical_path, uploaded, ord, detects) ==
    LET aether_file == from_bytes(encrypted_data)
        object_key == hex_encode(aether_file.val.header.uuid)
        index == open_index_with_state(master_key, db, detects)
        r == upsert(index.db.store, index.hmac_key, object_key,
                    [logical_path |-> logical_path,
                     encrypted_size |-> encrypted_data.len], ord)
    IN  /\ UNCHANGED <<master_key, storj_client, st, kh, idx>>
        /\ IF ~aether_file.ok
           THEN /\ resp' = Resp("storj_upload_file", "Parse")
                /\ UNCHANGED <<db, remote>>
           ELSE IF ~storj_client
           THEN /\ resp' = Resp("storj_upload_file", "NotConfigured")
                /\ UNCHANGED <<db, remote>>
           ELSE IF ~uploaded
           THEN /\ resp' = Resp("storj_upload_file", "Remote")
                /\ UNCHANGED <<db, remote>>
           ELSE /\ remote' = remote \cup {object_key}
                /\ IF ~index.ok
                   THEN /\ resp' = Resp("storj_upload_file", index.err)
                        /\ db' = index.db
                   ELSE /\ resp' = Resp("storj_upload_file",
                                        IF r.ok THEN "none" ELSE "InvalidQuery")
                        /\ db' = [index.db EXCEPT !.store = r.store]

storj_delete_file(file_uuid, ord, detects) ==
    LET file_id == hex_encode(file_uuid)
        index == open_index_with_state(master_key, db, detects)
        metadata == get(index.db.store, index.hmac_key, file_id)
        r == move_to_trash(index.db.store, index.hmac_key, file_id,
                           metadata.val[1], DeletedAt, ord)
    IN  /\ UNCHANGED <<master_key, storj_client, remote, st, kh, idx>>
        /\ IF Len(file_uuid) # UUID_LEN
           THEN /\ resp' = Resp("storj_delete_file", "InvalidUuid")
                /\ UNCHANGED db
           ELSE IF ~index.ok
           THEN /\ resp' = Resp("storj_delete_file", index.err)
                /\ db' = index.db
           ELSE IF ~metadata.ok \/ metadata.val = <<>>
           THEN /\ resp' = Resp("storj_delete_file",
                                IF metadata.ok THEN "NotFound" ELSE "InvalidQuery")
                /\ db' = index.db
           ELSE /\ resp' = Resp("storj_delete_file",
                                IF r.ok THEN "none" ELSE "InvalidQuery")
                /\ db' = [index.db EXCEPT !.store = r.store]

list_trash(detects) ==
    LET index == open_index_with_state(master_key, db, detects)
    IN  /\ UNCHANGED <<master_key, storj_client, remote, st, kh, idx>>
        /\ db' = index.db
        /\ resp' = Resp("list_trash", index.err)

restore_from_trash(file_id, ord, detects) ==
    LET index == open_index_with_state(master_key, db, detects)
        r == index_restore_from_trash(index.db.store, index.hmac_key, file_id, ord)
    IN  /\ UNCHANGED <<master_key, storj_client, remote, st, kh, idx>>
        /\ IF ~index.ok
           THEN /\ resp' = Resp("restore_from_trash", index.err)
                /\ db' = index.db
           ELSE /\ resp' = Resp("restore_from_trash",
                                IF r.ok THEN "none" ELSE "NotFound")
                /\ db' = [index.db EXCEPT !.store = r.store]

\* deleted tells whether the DELETE on the bucket succeeds
permanently_delete_from_trash(file_id, deleted, detects) ==
    LET file_uuid == hex_decode(file_id)
        object_key == hex_encode(file_uuid.val)
        index == open_index_with_state(master_key, db, detects)
    IN  /\ UNCHANGED <<master_key, storj_client, st, kh, idx>>
        /\ IF ~file_uuid.ok \/ Len(file_uuid.val) # UUID_LEN
           THEN /\ resp' = Resp("permanently_delete_from_trash", "InvalidUuid")
                /\ UNCHANGED <<db, remote>>
           ELSE IF ~storj_client
           THEN /\ resp' = Resp("permanently_delete_from_trash", "NotConfigured")
                /\ UNCHANGED <<db, remote>>
           ELSE IF ~deleted
           THEN /\ resp' = Resp("permanently_delete_from_trash", "Remote")
                /\ UNCHANGED <<db, remote>>
           ELSE /\ remote' = remote \ {object_key}
                /\ IF ~index.ok
                   THEN /\ resp' = Resp("permanently_delete_from_trash", index.err)
                        /\ db' = index.db
                   ELSE /\ resp' = Resp("permanently_delete_from_trash", "none")
                        /\ db' = [index.db EXCEPT
                                    !.store = remove_from_trash(index.db.store, file_id)]

\* deleted is the set of trash ids whose DELETE on the bucket succeeds; the
\* failures are only logged
empty_trash(deleted, detects) ==
    LET index == open_index_with_state(master_key, db, detects)
        trash_items == index_list_trash(index.db.store)
        undecodable == {id \in trash_items : ~hex_decode(id).ok}
        keys == {hex_encode(hex_decode(id).val) :
                    id \in {t \in trash_items \cap deleted :
                               /\ hex_decode(t).ok
                               /\ Len(hex_decode(t).val) = UUID_LEN}}
        index2 == open_index_with_state(master_key, index.db, detects)
    IN  /\ UNCHANGED <<master_key, storj_client, st, kh, idx>>
        /\ IF ~index.ok
           THEN /\ resp' = Resp("empty_trash", index.err)
                /\ db' = index.db
                /\ UNCHANGED remote
           ELSE IF ~storj_client
           THEN /\ resp' = Resp("empty_trash", "NotConfigured")
                /\ db' = index.db
                /\ UNCHANGED remote
           ELSE IF undecodable # {}
           THEN /\ resp' = Resp("empty_trash", "InvalidUuid")
                /\ db' = index.db
                \* the ids listed before the undecodable one are already deleted
                /\ \E done \in SUBSET keys : remote' = remote \ done
           ELSE /\ remote' = remote \ keys
                /\ IF ~index2.ok
                   THEN /\ resp' = Resp("empty_trash", index2.err)
                        /\ db' = index2.db
                   ELSE /\ resp' = Resp("empty_trash", "none")
                        /\ db' = [index2.db EXCEPT
                                    !.store = index_empty_trash(index2.db.store)]

Next ==
    \/ run
    \/ \E password \in AppPasswords, mk \in AppMasterKeys :
          crypto_bootstrap(password, mk)
    \/ reset_local_database
    \/ \E req \in WrongPassphraseRequests \cup RightPassphraseRequests
                    \cup ShortKeyRequests,
          detects \in BOOLEAN : crypto_unlock(req, detects)
    \/ lock
    \/ \E req \in ChangePasswordRequests :
          change_password(req, AppNewPasswordSalt, AppNonce)
    \/ \E req \in AddRequests, ord \in AppOrders,
          detects \in Detections(db, master_key) : index_add_file(req, ord, detects)
    \/ \E ord \in AppOrders, detects \in Detections(db, master_key) :
          index_list_files(ord, detects)
    \/ \E file_id \in AppIds, detects \in Detections(db, master_key) :
          index_get_file(file_id, detects)
    \/ \E file_id \in AppIds, ord \in AppOrders,
          detects \in Detections(db, master_key) :
          index_remove_file(file_id, ord, detects)
    \/ \E ord \in AppOrders, detects \in Detections(db, master_key) :
          index_verify_integrity(ord, detects)
    \/ \E folder_name \in FolderNames, parent_path \in ParentPaths,
          uuid \in {u \in AppUuids : FreshUuid(u)}, ord \in AppOrders,
          detects \in Detections(db, master_key) :
          create_folder(folder_name, parent_path, uuid, ord, detects)
    \/ \E uuid \in {u \in AppUuids : FreshUuid(u)}, ord \in AppOrders,
          detects \in Detections(db, master_key) :
          storage_encrypt_file(AppData, AppPath, uuid, AppFileSalt, AppNonce,
                               ord, detects)
    \/ \E encrypted_data \in EncryptedInputs, path \in {AppPath, <<47, 98>>} :
          storage_decrypt_file(encrypted_data, path)
    \/ \E created \in BOOLEAN : storj_configure(created)
    \/ \E encrypted_data \in EncryptedInputs, uploaded \in BOOLEAN,
          ord \in AppOrders, detects \in Detections(db, master_key) :
          storj_upload_file(encrypted_data, AppPath, uploaded, ord, detects)
    \/ \E file_uuid \in DeleteUuids, ord \in AppOrders,
          detects \in Detections(db, master_key) :
          storj_delete_file(file_uuid, ord, detects)
    \/ \E detects \in Detections(db, master_key) : list_trash(detects)
    \/ \E file_id \in TrashIds, ord \in AppOrders,
          detects \in Detections(db, master_key) :
          restore_from_trash(file_id, ord, detects)
    \/ \E file_id \in TrashIds, deleted \in BOOLEAN,
          detects \in Detections(db, master_key) :
          permanently_delete_from_trash(file_id, deleted, detects)
    \/ \E deleted \in SUBSET AppIds, detects \in Detections(db, master_key) :
          empty_trash(deleted, detects)

Spec == Init /\ [][Next]_vars

-----------------------------------------------------------------------------
(* SpecMerkle: MerkleTree::build on a drawn map, then on the map with one
   entry's encrypted_size changed, then MerkleTree::verify against a drawn
   expected root.  idx.entries is the map in the order it iterates. *)

\* MerkleTree::verify of the tree built over entries
MerkleTree_verify(entries, expected_root_hash) ==
    MerkleTree_build(entries) = expected_root_hash

MerkleSizes == {0, 1024, 2048}

MerklePaths == {<<47, 97>>, <<47, 98>>}

\* the maps of one to three entries, in every iteration order
MerkleMaps ==
    {[i \in 1..n |->
        [id |-> ord[i], logical_path |-> meta[ord[i]][1],
         encrypted_size |-> meta[ord[i]][2]]] :
        <<n, ord, meta>> \in
            (1..3) \X IndexOrders \X [IndexIds -> MerklePaths \X {1024, 2048}]}

MerkleInit ==
    /\ \E entries \in MerkleMaps :
          idx = [pc |-> "start", entries |-> entries, root |-> <<>>,
                 entries2 |-> <<>>, root2 |-> <<>>, expected |-> <<>>,
                 verified |-> FALSE]
    /\ StParked /\ KhParked /\ AppParked

MkBuild ==
    /\ idx.pc = "start"
    /\ idx' = [idx EXCEPT !.pc = "built", !.root = MerkleTree_build(idx.entries)]
    /\ UNCHANGED <<st, kh, appVars>>

\* one entry gets another encrypted_size; the changed map iterates in any order
MkChange ==
    /\ idx.pc = "built"
    /\ \E k \in DOMAIN idx.entries, size \in MerkleSizes,
          perm \in AllOrders(DOMAIN idx.entries) :
          /\ size # idx.entries[k].encrypted_size
          /\ LET changed == [idx.entries EXCEPT ![k].encrypted_size = size]
                 entries2 == [i \in DOMAIN changed |-> changed[perm[i]]]
             IN  idx' = [idx EXCEPT !.pc = "changed", !.entries2 = entries2,
                           !.root2 = MerkleTree_build(entries2)]
    /\ UNCHANGED <<st, kh, appVars>>

MkVerify ==
    /\ idx.pc = "changed"
    /\ \E expected \in {idx.root, idx.root2, Sha256(MERKLE_EMPTY)} :
          idx' = [idx EXCEPT !.pc = "verified", !.expected = expected,
                    !.verified = MerkleTree_verify(idx.entries2, expected)]
    /\ UNCHANGED <<st, kh, appVars>>

MerkleNext == MkBuild \/ MkChange \/ MkVerify

SpecMerkle == MerkleInit /\ [][MerkleNext]_vars

-----------------------------------------------------------------------------
(* SpecTamper: one index under its API (upsert, remove, get, list_all) and a
   writer behind the API, who holds the opened file but not the HMAC key and
   overwrites the columns of one stored row.  idx.written holds the rows as
   the API wrote them.  idx.last is the last step: for a read, the ids whose
   row differed from what the API wrote and the result; for a write that
   returned an error, the rows and the root it started from. *)

TamperIds == {<<102, 49>>, <<102, 49, 49>>}

TamperOrders == AllOrders(TamperIds)

\* the values the writer behind the API puts in a row: a path, a size, and a
\* MAC that is either one of the MACs stored in the file or junk
TamperRows(rows) ==
    {[logical_path |-> path, encrypted_size |-> size, hmac |-> hmac] :
        <<path, size, hmac>> \in
            {<<47, 97>>, <<47, 98>>, <<49, 47, 97>>} \X {1024, 2048}
                \X ({rows[id].hmac : id \in DOMAIN rows} \cup {<<0>>})}

ModifiedIds(rows, written) == {id \in DOMAIN rows : rows[id] # written[id]}

TamperStep(op, ok, id, modified, res, store) ==
    [op |-> op, ok |-> ok, id |-> id, modified |-> modified, res |-> res,
     rows |-> store.rows, root |-> store.root]

TamperInit ==
    /\ idx = [store |-> FreshStore, written |-> NoRows,
               last |-> TamperStep("none", TRUE, <<>>, {}, Err("none"), FreshStore)]
    /\ StParked /\ KhParked /\ AppParked

TmUpsert ==
    /\ \E id \in TamperIds, size \in {1024, 2048}, ord \in TamperOrders :
          LET meta == [logical_path |-> <<47, 97>>, encrypted_size |-> size]
              r == upsert(idx.store, IndexHmacKey, id, meta, ord)
          IN  idx' = [store |-> r.store,
                      written |-> WithRow(idx.written, id, r.store.rows[id]),
                      last |-> TamperStep("upsert", r.ok, id, {}, Err("none"),
                                          IF r.ok THEN FreshStore ELSE idx.store)]
    /\ UNCHANGED <<st, kh, appVars>>

TmRemove ==
    /\ \E id \in TamperIds, ord \in TamperOrders :
          LET r == remove(idx.store, IndexHmacKey, id, ord)
          IN  idx' = [store |-> r.store,
                      written |-> WithoutRow(idx.written, id),
                      last |-> TamperStep("remove", r.ok, id, {}, Err("none"),
                                          IF r.ok THEN FreshStore ELSE idx.store)]
    /\ UNCHANGED <<st, kh, appVars>>

\* one row at a time is overwritten behind the API
TmTamper ==
    /\ \E id \in DOMAIN idx.store.rows, row \in TamperRows(idx.store.rows) :
          /\ ModifiedIds(idx.store.rows, idx.written) \subseteq {id}
          /\ row # idx.store.rows[id]
          /\ idx' = [idx EXCEPT
                        !.store.rows = WithRow(idx.store.rows, id, row),
                        !.last = TamperStep("tamper", TRUE, id, {}, Err("none"),
                                            FreshStore)]
    /\ UNCHANGED <<st, kh, appVars>>

TmGet ==
    /\ \E id \in TamperIds :
          idx' = [idx EXCEPT !.last =
                    TamperStep("get", TRUE, id,
                               ModifiedIds(idx.store.rows, idx.written),
                               get(idx.store, IndexHmacKey, id), FreshStore)]
    /\ UNCHANGED <<st, kh, appVars>>

TmListAll ==
    /\ \E ord \in TamperOrders :
          idx' = [idx EXCEPT !.last =
                    TamperStep("list_all", TRUE, <<>>,
                               ModifiedIds(idx.store.rows, idx.written),
                               list_all(idx.store, IndexHmacKey, ord), FreshStore)]
    /\ UNCHANGED <<st, kh, appVars>>

TamperNext == TmUpsert \/ TmRemove \/ TmTamper \/ TmGet \/ TmListAll

SpecTamper == TamperInit /\ [][TamperNext]_vars

-----------------------------------------------------------------------------
(* SpecTrash: one freshly opened index under upsert, remove and the trash
   operations.  A row is moved to the trash the way storj_delete_file does
   it: index.get first, move_to_trash with the metadata it returned.
   idx.last is the last operation, whether it succeeded, and, for the two
   purges, the stored root they started from. *)

TrashStep(op, ok, root) == [op |-> op, ok |-> ok, root |-> root]

TrashInit ==
    /\ idx = [store |-> FreshStore, last |-> TrashStep("none", TRUE, <<>>)]
    /\ StParked /\ KhParked /\ AppParked

TrUpsert ==
    /\ \E id \in IndexIds, meta \in PairMetas, ord \in IndexOrders :
          LET r == upsert(idx.store, IndexHmacKey, id, meta, ord)
          IN  idx' = [store |-> r.store, last |-> TrashStep("upsert", r.ok, <<>>)]
    /\ UNCHANGED <<st, kh, appVars>>

TrRemove ==
    /\ \E id \in IndexIds, ord \in IndexOrders :
          LET r == remove(idx.store, IndexHmacKey, id, ord)
          IN  idx' = [store |-> r.store, last |-> TrashStep("remove", r.ok, <<>>)]
    /\ UNCHANGED <<st, kh, appVars>>

TrMoveToTrash ==
    /\ \E id \in IndexIds, ord \in IndexOrders :
          LET metadata == get(idx.store, IndexHmacKey, id)
              r == move_to_trash(idx.store, IndexHmacKey, id, metadata.val[1],
                                 DeletedAt, ord)
          IN  IF ~metadata.ok \/ metadata.val = <<>>
              THEN idx' = [idx EXCEPT !.last = TrashStep("move_to_trash", FALSE, <<>>)]
              ELSE idx' = [store |-> r.store,
                           last |-> TrashStep("move_to_trash", r.ok, <<>>)]
    /\ UNCHANGED <<st, kh, appVars>>

TrRestoreFromTrash ==
    /\ \E id \in IndexIds, ord \in IndexOrders :
          LET r == index_restore_from_trash(idx.store, IndexHmacKey, id, ord)
          IN  idx' = [store |-> r.store,
                      last |-> TrashStep("restore_from_trash", r.ok, <<>>)]
    /\ UNCHANGED <<st, kh, appVars>>

TrRemoveFromTrash ==
    /\ \E id \in IndexIds :
          idx' = [store |-> remove_from_trash(idx.store, id),
                  last |-> TrashStep("remove_from_trash", TRUE, idx.store.root)]
    /\ UNCHANGED <<st, kh, appVars>>

TrEmptyTrash ==
    /\ idx' = [store |-> index_empty_trash(idx.store),
               last |-> TrashStep("empty_trash", TRUE, idx.store.root)]
    /\ UNCHANGED <<st, kh, appVars>>

TrashNext ==
    \/ TrUpsert \/ TrRemove \/ TrMoveToTrash \/ TrRestoreFromTrash
    \/ TrRemoveFromTrash \/ TrEmptyTrash

SpecTrash == TrashInit /\ [][TrashNext]_vars

-----------------------------------------------------------------------------
(* SpecConcurrent: two commands writing the same index.db at the same time,
   each through the SqlCipherIndex it opened itself (open_index_with_state
   holds the master-key mutex only while it opens).  A write is three
   statements on the connection, each committed on its own: the INSERT OR
   REPLACE or DELETE of the row, the SELECT of list_all, and the INSERT OR
   REPLACE of the root built from what the SELECT returned.  idx.store is
   the file, idx.cmd[t] the command t: its position, its call, and the root
   it has built. *)

Writers == {"t1", "t2"}

Idle == [pc |-> "start", op |-> "none", id |-> <<>>, root_hash |-> <<>>, ok |-> TRUE]

\* the index as the commands find it: new, or holding one row
ConcurrentStores ==
    {FreshStore} \cup
    {upsert(FreshStore, IndexHmacKey, id, meta, <<id>>).store :
        id \in IndexIds, meta \in PairMetas}

ConcurrentInit ==
    /\ idx \in [store : ConcurrentStores, cmd : {[t \in Writers |-> Idle]}]
    /\ StParked /\ KhParked /\ AppParked

\* upsert, first statement: INSERT OR REPLACE INTO file_index
CcInsertRow(t) ==
    /\ idx.cmd[t].pc = "start"
    /\ \E id \in IndexIds, meta \in PairMetas :
          idx' = [idx EXCEPT
                    !.store.rows =
                        WithRow(idx.store.rows, id,
                                [logical_path |-> meta.logical_path,
                                 encrypted_size |-> meta.encrypted_size,
                                 hmac |-> compute_hmac(IndexHmacKey, id,
                                                       meta.logical_path,
                                                       meta.encrypted_size)]),
                    !.cmd[t] = [Idle EXCEPT !.pc = "row_written",
                                            !.op = "upsert", !.id = id]]
    /\ UNCHANGED <<st, kh, appVars>>

\* remove, first statement: DELETE FROM file_index
CcDeleteRow(t) ==
    /\ idx.cmd[t].pc = "start"
    /\ \E id \in IndexIds :
          idx' = [idx EXCEPT
                    !.store.rows = WithoutRow(idx.store.rows, id),
                    !.cmd[t] = [Idle EXCEPT !.pc = "row_written",
                                            !.op = "remove", !.id = id]]
    /\ UNCHANGED <<st, kh, appVars>>

\* update_merkle_root, first half: list_all and MerkleTree::build
CcListAll(t) ==
    /\ idx.cmd[t].pc = "row_written"
    /\ \E ord \in IndexOrders :
          LET entries == list_all(idx.store, IndexHmacKey, ord)
          IN  idx' = [idx EXCEPT !.cmd[t] =
                        IF ~entries.ok
                        THEN [@ EXCEPT !.pc = "done", !.ok = FALSE]
                        ELSE [@ EXCEPT !.pc = "listed",
                                       !.root_hash =
                                          MerkleTree_build(MapEntries(entries.val, ord))]]
    /\ UNCHANGED <<st, kh, appVars>>

\* update_merkle_root, second half: INSERT OR REPLACE INTO index_metadata
CcStoreRoot(t) ==
    /\ idx.cmd[t].pc = "listed"
    /\ idx' = [idx EXCEPT !.store.root = idx.cmd[t].root_hash,
                          !.cmd[t].pc = "done"]
    /\ UNCHANGED <<st, kh, appVars>>

ConcurrentNext ==
    \E t \in Writers :
        CcInsertRow(t) \/ CcDeleteRow(t) \/ CcListAll(t) \/ CcStoreRoot(t)

SpecConcurrent == ConcurrentInit /\ [][ConcurrentNext]_vars

-----------------------------------------------------------------------------
(* SpecSync: storj_list_files on a bucket and an index drawn from small sets.
   idx.bucket is the set of object keys in the bucket, idx.before the rows of
   the index when the command starts, idx.store the index, idx.opened whether
   open_index_with_state succeeded, idx.files the Vec<StorjFileInfo> returned
   (an Option is a sequence of length 0 or 1). *)

\* the number of keys in one ListObjectsV2 response (1000 on the service),
\* scaled to the size of the buckets drawn here
MaxKeys == 2

\* "A-1", "a1", "a2", "b1", "d/"
BucketKeys == {<<65, 45, 49>>, <<97, 49>>, <<97, 50>>, <<98, 49>>, <<100, 47>>}

SyncIds == {<<97, 49>>, <<97, 50>>, <<98, 49>>}

SyncOrders == AllOrders(SyncIds)

\* uuid.replace("-", "").to_lowercase()
uuid_normalized(uuid) ==
    LET kept == SelectSeq(uuid, LAMBDA c : c # 45)
    IN  [i \in DOMAIN kept |->
            IF kept[i] \in 65..90 THEN kept[i] + 32 ELSE kept[i]]

\* the contents of the one response list_files asks for: the keys in byte
\* order, cut after MaxKeys
ListObjectsV2(bucket) ==
    LET some == CHOOSE q \in AllOrders(bucket) : TRUE
        sorted == SortByKey([i \in DOMAIN some |-> [key |-> some[i], val |-> some[i]]])
        n == IF Len(sorted) < MaxKeys THEN Len(sorted) ELSE MaxKeys
    IN  [i \in 1..n |-> sorted[i].val]

\* StorjClient::list_files: one request, the keys ending in '/' left out
list_files(bucket) ==
    SelectSeq(ListObjectsV2(bucket), LAMBDA k : k[Len(k)] # 47)

\* the loop removing the rows whose id is not a normalised key; a failed
\* remove is only logged
RECURSIVE RemoveOrphans(_, _, _, _, _)
RemoveOrphans(store, all_local_files, normalized, hmac_key, ord) ==
    IF all_local_files = <<>> THEN store
    ELSE RemoveOrphans(
            IF Head(all_local_files).id \in normalized THEN store
            ELSE remove(store, hmac_key, Head(all_local_files).id, ord).store,
            Tail(all_local_files), normalized, hmac_key, ord)

StorjFileInfo(uuid, metadata) ==
    [uuid |-> uuid,
     logical_path |-> IF metadata.ok /\ metadata.val # <<>>
                      THEN <<metadata.val[1].logical_path>> ELSE <<>>,
     encrypted_size |-> IF metadata.ok /\ metadata.val # <<>>
                        THEN <<metadata.val[1].encrypted_size>> ELSE <<>>]

\* the body of storj_list_files after the listing: [store, files]
reconcile(keys, store, opened, hmac_key, ord) ==
    LET storj_uuids_normalized == {uuid_normalized(keys[i]) : i \in DOMAIN keys}
        listed == list_all(store, hmac_key, ord)
        all_local_files == IF listed.ok THEN listed.val ELSE <<>>
        cleaned == RemoveOrphans(store, all_local_files, storj_uuids_normalized,
                                 hmac_key, ord)
    IN  IF opened
        THEN [store |-> cleaned,
              files |-> [i \in DOMAIN keys |->
                            StorjFileInfo(keys[i],
                                          get(cleaned, hmac_key,
                                              uuid_normalized(keys[i])))]]
        ELSE [store |-> store,
              files |-> [i \in DOMAIN keys |-> StorjFileInfo(keys[i], Err("none"))]]

\* an index holding one row for each of ids
RECURSIVE StoreOf(_)
StoreOf(ids) ==
    IF ids = <<>> THEN FreshStore
    ELSE upsert(StoreOf(Tail(ids)), IndexHmacKey, Head(ids),
                [logical_path |-> <<47>> \o Head(ids), encrypted_size |-> 1024],
                ids).store

SyncInit ==
    /\ idx \in [pc : {"start"}, bucket : SUBSET BucketKeys,
                before : {NoRows}, opened : {TRUE}, files : {<<>>},
                store : {StoreOf(CHOOSE q \in AllOrders(ids) : TRUE) :
                            ids \in SUBSET SyncIds}]
    /\ StParked /\ KhParked /\ AppParked

\* sent tells whether the ListObjectsV2 request succeeds; opened whether the
\* index opens
storj_list_files(sent, opened, ord) ==
    LET r == reconcile(list_files(idx.bucket), idx.store, opened, IndexHmacKey, ord)
    IN  /\ idx.pc = "start"
        /\ idx' = IF ~sent THEN [idx EXCEPT !.pc = "failed"]
                  ELSE [idx EXCEPT !.pc = "listed", !.before = idx.store.rows,
                                   !.opened = opened, !.store = r.store,
                                   !.files = r.files]
        /\ UNCHANGED <<st, kh, appVars>>

SyncNext ==
    \E sent \in BOOLEAN, opened \in BOOLEAN, ord \in SyncOrders :
        storj_list_files(sent, opened, ord)

SpecSync == SyncInit /\ [][SyncNext]_vars

-----------------------------------------------------------------------------
(* SpecEnvelope: an envelope is encrypted and serialized, one field of the
   serialized bytes is replaced by another value of the same width, and the
   bytes are parsed and decrypted under the master key and the path of the
   encryption.  st.data is the serialized envelope, st.field the name of the
   replaced field, st.parsed and st.dec the results of from_bytes and
   decrypt_file. *)

\* the values a field of width bytes is replaced by
OtherMagics == {<<88, 69, 84, 72>>, <<65, 69, 84, 88>>}

\* 8-byte length fields: small lengths, 2^64 - 118 and 2^64 - 1
LengthFields(data) ==
    {to_le_bytes(n) : n \in 0..(FromLe(data.ciphertext_len) + 2)}
        \cup {<<138, 255, 255, 255, 255, 255, 255, 255>>, Fill(LEN_SIZE, 255)}

\* other ciphertexts of the same length: the message sealed under another
\* key, nonce or path, and the ciphertext with a byte of its body or of its
\* tag changed
OtherCiphertexts(data, st0) ==
    LET ct == data.ciphertext
        n == Len(AeadBody(ct))
    IN  {AeadSeal(derive_storage_file_key(mk, salt), nonce, build_aad(path),
                  st0.plaintext) :
            <<mk, salt, nonce, path>> \in
                MasterKeys \X FileSalts \X Nonces \X {st0.path, <<47, 122>>}}
        \cup {[ct EXCEPT ![i] = (@ + 1) % 256] : i \in ({3} \cap 3..(n + 2)) \cup {n + 4}}

\* the commitments of other headers and of other keys
OtherCommitments ==
    {commitment(MAGIC_NUMBER, VERSION, CIPHER_ID, uuid, salt,
                derive_storage_file_key(mk, salt)) :
        <<uuid, salt, mk>> \in Uuids \X FileSalts \X MasterKeys} \cup {Fill(32, 0)}

\* the serialized envelopes that differ from data in exactly one field
Changed(data, st0) ==
    LET h == data.header
    IN  [field : {"magic"},
         data : {[data EXCEPT !.header.magic = v] : v \in OtherMagics}]
        \cup [field : {"version"},
              data : {[data EXCEPT !.header.version = v] : v \in {0, 2} \ {h.version}}]
        \cup [field : {"cipher_id"},
              data : {[data EXCEPT !.header.cipher_id = v] : v \in {1, 3} \ {h.cipher_id}}]
        \cup [field : {"uuid"},
              data : {[data EXCEPT !.header.uuid = v] : v \in Uuids \ {h.uuid}}]
        \cup [field : {"salt"},
              data : {[data EXCEPT !.header.salt = v] : v \in FileSalts \ {h.salt}}]
        \cup [field : {"commitment_hmac"},
              data : {[data EXCEPT !.header.commitment_hmac = v] :
                         v \in OtherCommitments \ {h.commitment_hmac}}]
        \cup [field : {"nonce"},
              data : {[data EXCEPT !.header.nonce = v] : v \in Nonces \ {h.nonce}}]
        \cup [field : {"ciphertext_length"},
              data : {[data EXCEPT !.ciphertext_len = v] :
                         v \in LengthFields(data) \ {data.ciphertext_len}}]
        \cup [field : {"ciphertext"},
              data : {[data EXCEPT !.ciphertext = v] :
                         v \in OtherCiphertexts(data, st0) \ {data.ciphertext}}]

EnvelopeInit ==
    /\ \E mk \in MasterKeys, p \in Plaintexts, path \in {<<47, 97>>, <<47, 98>>} :
          st = [pc |-> "start", mk |-> mk, plaintext |-> p, path |-> path,
                data |-> <<>>, field |-> "none",
                parsed |-> "none", dec |-> Err("none")]
    /\ KhParked /\ AppParked /\ IdxParked

EnvEncrypt ==
    /\ st.pc = "start"
    /\ \E uuid \in Uuids, salt \in FileSalts, nonce \in Nonces :
          st' = [st EXCEPT !.pc = "serialized",
                  !.data = to_bytes(encrypt_file(st.mk, st.plaintext, st.path,
                                                 uuid, salt, nonce).val)]
    /\ UNCHANGED <<kh, appVars, idx>>

EnvChange ==
    /\ st.pc = "serialized"
    /\ \E c \in Changed(st.data, st) :
          st' = [st EXCEPT !.pc = "changed", !.data = c.data, !.field = c.field]
    /\ UNCHANGED <<kh, appVars, idx>>

\* storage_decrypt_file: from_bytes, then decrypt_file
EnvDecrypt ==
    /\ st.pc \in {"serialized", "changed"}
    /\ LET aether_file == from_bytes(st.data)
       IN  st' = [st EXCEPT !.pc = "decrypted",
                    !.parsed = IF aether_file.ok THEN "parsed" ELSE aether_file.err,
                    !.dec = IF aether_file.ok
                            THEN decrypt_file(st.mk, aether_file.val, st.path)
                            ELSE Err("none")]
    /\ UNCHANGED <<kh, appVars, idx>>

EnvelopeNext == EnvEncrypt \/ EnvChange \/ EnvDecrypt

SpecEnvelope == EnvelopeInit /\ [][EnvelopeNext]_vars

-----------------------------------------------------------------------------
(* SpecDecrypt: storage_decrypt_file statement by statement.  st.slot is
   AppState.master_key, st.data and st.path the arguments, st.mk the clone
   get_master_key_from_state returns, st.file_key the derived FileKey,
   st.events what has been done with the keys so far, st.result the value
   the command returns. *)

\* serialized envelopes whose magic, version and cipher_id are the constants
\* of the format or not
DecryptInputs ==
    {[to_bytes(encrypt_file(mk, AppData, AppPath, uuid, AppFileSalt, nonce).val)
         EXCEPT !.header.magic = magic, !.header.version = version,
                !.header.cipher_id = cipher_id] :
        <<mk, uuid, nonce, magic, version, cipher_id>> \in
            MasterKeys \X Uuids \X Nonces \X {MAGIC_NUMBER, <<88, 69, 84, 72>>}
                \X {VERSION, 2} \X {CIPHER_ID, 3}}

BadHeader(data) ==
    \/ data.header.magic # MAGIC_NUMBER
    \/ data.header.version # VERSION
    \/ data.header.cipher_id # CIPHER_ID

Returned(s, result) == [s EXCEPT !.pc = "done", !.result = result]

DecryptInit ==
    /\ \E slot \in MasterKeys \cup {<<>>}, data \in DecryptInputs,
          path \in {AppPath, <<47, 98>>} :
          st = [pc |-> "get_master_key", slot |-> slot, data |-> data,
                path |-> path, mk |-> <<>>, file_key |-> <<>>, events |-> {},
                result |-> Err("none")]
    /\ KhParked /\ AppParked /\ IdxParked

\* get_master_key_from_state: master_key.as_bytes().to_vec()
DfGetMasterKey ==
    /\ st.pc = "get_master_key"
    /\ st' = IF st.slot = <<>> THEN Returned(st, Err("Locked"))
             ELSE [st EXCEPT !.pc = "from_bytes", !.mk = st.slot,
                             !.events = @ \cup {"master_key_read"}]
    /\ UNCHANGED <<kh, appVars, idx>>

DfFromBytes ==
    /\ st.pc = "from_bytes"
    /\ st' = IF from_bytes(st.data).ok THEN [st EXCEPT !.pc = "check_header"]
             ELSE Returned(st, Err("Parse"))
    /\ UNCHANGED <<kh, appVars, idx>>

\* decrypt_file: the magic, version and cipher_id checks
DfCheckHeader ==
    /\ st.pc = "check_header"
    /\ st' = IF BadHeader(st.data) THEN Returned(st, Err("InvalidFormat"))
             ELSE [st EXCEPT !.pc = "derive_file_key"]
    /\ UNCHANGED <<kh, appVars, idx>>

\* decrypt_file: master_key.as_bytes() and the HKDF
DfDeriveFileKey ==
    /\ st.pc = "derive_file_key"
    /\ st' = IF Len(st.mk) # MASTER_KEY_LEN THEN Returned(st, Err("InvalidFormat"))
             ELSE [st EXCEPT !.pc = "check_commitment",
                             !.file_key = derive_storage_file_key(
                                              st.mk, st.data.header.salt),
                             !.events = @ \cup {"file_key_derived"}]
    /\ UNCHANGED <<kh, appVars, idx>>

\* decrypt_file: the commitment comparison
DfCheckCommitment ==
    /\ st.pc = "check_commitment"
    /\ LET h == st.data.header
       IN  st' = IF commitment(h.magic, h.version, h.cipher_id, h.uuid, h.salt,
                               st.file_key) # h.commitment_hmac
                 THEN Returned(st, Err("InvalidFormat"))
                 ELSE [st EXCEPT !.pc = "open"]
    /\ UNCHANGED <<kh, appVars, idx>>

\* decrypt_file: the AEAD decryption
DfOpen ==
    /\ st.pc = "open"
    /\ LET opened == AeadOpen(st.file_key, st.data.header.nonce,
                              build_aad(st.path), from_bytes(st.data).val.ciphertext)
       IN  st' = Returned(st, IF opened.ok THEN Ok(opened.val) ELSE Err("Crypto"))
    /\ UNCHANGED <<kh, appVars, idx>>

DecryptNext ==
    \/ DfGetMasterKey \/ DfFromBytes \/ DfCheckHeader \/ DfDeriveFileKey
    \/ DfCheckCommitment \/ DfOpen

SpecDecrypt == DecryptInit /\ [][DecryptNext]_vars

-----------------------------------------------------------------------------
(* SpecFresh: two calls of encrypt_file, one after the other.  st.drawn
   holds the byte strings OsRng has returned so far, st.calls the arguments
   and the envelope of each call. *)

\* OsRng.fill_bytes on n bytes (n >= 16): an ideal generator returns no
\* string it has returned before
fill_bytes(drawn, n) == {Fill(n, k) : k \in 1..(NumRandom + 1)} \ drawn

FreshInit ==
    /\ st = [pc |-> "first", drawn |-> {}, calls |-> <<>>]
    /\ KhParked /\ AppParked /\ IdxParked

EfEncryptFile ==
    /\ st.pc \in {"first", "second"}
    /\ \E mk \in MasterKeys, plaintext \in {<<>>, <<72, 105>>},
          path \in {<<47, 97>>, <<47, 98>>} :
       \E uuid \in fill_bytes(st.drawn, UUID_LEN) :
       \E salt \in fill_bytes(st.drawn \cup {uuid}, SALT_LEN) :
       \E nonce \in fill_bytes(st.drawn \cup {uuid, salt}, NONCE_LEN) :
          st' = [pc |-> IF st.pc = "first" THEN "second" ELSE "done",
                 drawn |-> st.drawn \cup {uuid, salt, nonce},
                 calls |-> Append(st.calls,
                                  [mk |-> mk, plaintext |-> plaintext, path |-> path,
                                   file |-> encrypt_file(mk, plaintext, path,
                                                         uuid, salt, nonce).val])]
    /\ UNCHANGED <<kh, appVars, idx>>

FreshNext == EfEncryptFile

SpecFresh == FreshInit /\ [][FreshNext]_vars

-----------------------------------------------------------------------------
(* SpecFormat: AetherFile::to_bytes and AetherFile::from_bytes on bytes.
   st.file is an AetherFile with fields of the widths of the struct,
   st.bytes the byte string handed to from_bytes (the serialized file, a
   prefix of it, or the serialized file declaring a longer ciphertext),
   st.input which of the three, st.parsed the result of from_bytes. *)

\* the serialized envelope with the length written most significant byte
\* first
AetherFile_to_bytes_be_length(f) ==
    f.header.magic \o <<f.header.version>> \o <<f.header.cipher_id>>
        \o f.header.uuid \o f.header.salt \o f.header.commitment_hmac
        \o f.header.nonce
        \o [i \in 1..LEN_SIZE |-> to_le_bytes(Len(f.ciphertext))[LEN_SIZE + 1 - i]]
        \o f.ciphertext

AetherFile_to_bytes(f) ==
    f.header.magic \o <<f.header.version>> \o <<f.header.cipher_id>>
        \o f.header.uuid \o f.header.salt \o f.header.commitment_hmac
        \o f.header.nonce \o to_le_bytes(Len(f.ciphertext)) \o f.ciphertext

AetherFile_from_bytes(data) ==
    IF Len(data) < HEADER_SIZE + LEN_SIZE THEN Err("InvalidHeader")
    ELSE LET ciphertext_len_bytes == SubSeq(data, HEADER_SIZE + 1, HEADER_SIZE + LEN_SIZE)
             fit == LengthCheck(Len(data), ciphertext_len_bytes)
             offset == HEADER_SIZE + LEN_SIZE
         IN  IF fit = "panic" THEN Err("Panic")
             ELSE IF fit = "short" THEN Err("InvalidHeader")
             ELSE Ok([header |->
                         [magic |-> SubSeq(data, 1, 4),
                          version |-> data[5],
                          cipher_id |-> data[6],
                          uuid |-> SubSeq(data, 7, 6 + UUID_LEN),
                          salt |-> SubSeq(data, 7 + UUID_LEN, 6 + UUID_LEN + SALT_LEN),
                          commitment_hmac |->
                              SubSeq(data, 7 + UUID_LEN + SALT_LEN,
                                     HEADER_SIZE - NONCE_LEN),
                          nonce |-> SubSeq(data, HEADER_SIZE - NONCE_LEN + 1,
                                           HEADER_SIZE)],
                      ciphertext |->
                          SubSeq(data, offset + 1, offset + FromLe(ciphertext_len_bytes))])

\* n bytes counting up from k
Ramp(n, k) == [i \in 1..n |-> (k + i) % 256]

FormatFiles ==
    [header : [magic : {MAGIC_NUMBER, <<88, 69, 84, 72>>}, version : {VERSION, 255},
               cipher_id : {CIPHER_ID}, uuid : {Ramp(UUID_LEN, 16)},
               salt : {Ramp(SALT_LEN, 32)},
               commitment_hmac : {Ramp(32, 64), Ramp(32, 200)},
               nonce : {Ramp(NONCE_LEN, 128)}],
     ciphertext : {<<>>, <<9>>, Ramp(16, 0), Ramp(19, 250)}]

\* length fields declaring more than n bytes: n + 1, n + 256, 2^56,
\* 2^64 - 119, 2^64 - 118 and 2^64 - 1
LongerLengths(n) ==
    {to_le_bytes(n + 1), to_le_bytes(n + 256),
     <<0, 0, 0, 0, 0, 0, 0, 1>>,
     <<137, 255, 255, 255, 255, 255, 255, 255>>,
     <<138, 255, 255, 255, 255, 255, 255, 255>>,
     Fill(LEN_SIZE, 255)}

FormatInit ==
    /\ \E f \in FormatFiles :
          st = [pc |-> "start", file |-> f, bytes |-> <<>>, input |-> "none",
                parsed |-> Err("none")]
    /\ KhParked /\ AppParked /\ IdxParked

FmToBytes ==
    /\ st.pc = "start"
    /\ st' = [st EXCEPT !.pc = "input", !.bytes = AetherFile_to_bytes(st.file),
                        !.input = "whole"]
    /\ UNCHANGED <<kh, appVars, idx>>

\* the first n bytes of the serialized file
FmCut ==
    /\ st.pc = "input" /\ st.input = "whole"
    /\ \E n \in 0..(Len(st.bytes) - 1) :
          st' = [st EXCEPT !.bytes = SubSeq(st.bytes, 1, n), !.input = "cut"]
    /\ UNCHANGED <<kh, appVars, idx>>

\* the serialized file with a length field above its ciphertext
FmDeclare ==
    /\ st.pc = "input" /\ st.input = "whole"
    /\ \E len \in LongerLengths(Len(st.file.ciphertext)) :
          st' = [st EXCEPT
                   !.bytes = SubSeq(st.bytes, 1, HEADER_SIZE) \o len
                                \o st.file.ciphertext,
                   !.input = "declared"]
    /\ UNCHANGED <<kh, appVars, idx>>

FmFromBytes ==
    /\ st.pc = "input"
    /\ st' = [st EXCEPT !.pc = "parsed", !.parsed = AetherFile_from_bytes(st.bytes)]
    /\ UNCHANGED <<kh, appVars, idx>>

FormatNext == FmToBytes \/ FmCut \/ FmDeclare \/ FmFromBytes

SpecFormat == FormatInit /\ [][FormatNext]_vars

-----------------------------------------------------------------------------
(* C1: decrypting an envelope with the master key and the logical path it was
   encrypted under succeeds and returns exactly the plaintext. *)
C1_RoundTrip ==
    (st.pc = "decrypted" /\ st.mk2 = st.mk /\ st.path2 = st.path)
        => (st.dec.ok /\ st.dec.val = st.plaintext)

C1_Witness ==
    /\ st.pc = "decrypted" /\ st.mk2 = st.mk /\ st.path2 = st.path
    /\ st.dec.ok /\ st.plaintext = <<72, 105, 33>>

(* C2: decrypting an envelope with a logical path different from the one it
   was encrypted under returns an error, never a plaintext. *)
C2_WrongPathFails ==
    (st.pc = "decrypted" /\ st.mk2 = st.mk /\ st.path2 # st.path)
        => (~st.dec.ok /\ st.dec.val = <<>>)

C2_Witness ==
    /\ st.pc = "decrypted" /\ st.mk2 = st.mk /\ st.path2 # st.path
    /\ ~st.dec.ok /\ st.dec.err = "Crypto"

(* C3: decrypting an envelope with a master key different from the one it was
   encrypted under returns an error at the commitment check (reported as
   InvalidFormat), never a plaintext. *)
C3_WrongKeyFails ==
    (st.pc = "decrypted" /\ st.mk2 # st.mk)
        => (~st.dec.ok /\ st.dec.val = <<>> /\ st.dec.err = "InvalidFormat")

C3_Witness ==
    /\ st.pc = "decrypted" /\ st.mk2 # st.mk /\ st.path2 = st.path
    /\ ~st.dec.ok /\ st.dec.err = "InvalidFormat"

(* C4: restoring with the passphrase, salt and MKEK of a bootstrap yields
   exactly the master key that bootstrap generated. *)
C4_UnlockRoundTrip ==
    (kh.pc = "restored" /\ kh.changes = 0 /\ kh.tried = kh.password)
        => (kh.restored.ok /\ kh.restored.val.master_key = kh.mk0)

C4_Witness ==
    /\ kh.pc = "restored" /\ kh.changes = 0 /\ kh.tried = kh.password
    /\ kh.restored.ok /\ kh.restored.val.master_key = kh.mk0

(* C5: after one or more successful change_password operations, restoring
   with the latest password, salt and MKEK yields the master key generated at
   bootstrap: change_password never generates or alters the master key. *)
C5_ChangePasswordPreservesMK ==
    (kh.pc = "restored" /\ kh.changes >= 1 /\ kh.tried = kh.password)
        => (kh.restored.ok /\ kh.restored.val.master_key = kh.mk0)

C5_Witness ==
    /\ kh.pc = "restored" /\ kh.changes = MaxChanges /\ kh.tried = kh.password
    /\ kh.restored.ok /\ kh.restored.val.master_key = kh.mk0

(* C6: crypto_unlock with a passphrase other than the one that sealed the
   MKEK (same salt, same MKEK) returns an error, leaves the session slot at
   its previous value (empty if it was empty) and leaves the index file as it
   was, so no index operation becomes available. *)
C6_WrongPassphraseUnlockFails ==
    [][resp'.op = "crypto_unlock"
          => \A req \in WrongPassphraseRequests, detects \in BOOLEAN :
                crypto_unlock(req, detects)
                    => /\ ~resp'.ok
                       /\ master_key' = master_key
                       /\ db' = db]_vars

C6_Witness ==
    /\ resp.op = "crypto_unlock" /\ resp.err = "Aead"
    /\ master_key = <<>>
    /\ db.exists /\ DOMAIN db.store.rows # {}

\* the commands of C7: encrypt_file, decrypt_file and the index operations
MasterKeyCommands ==
    {"storage_encrypt_file", "storage_decrypt_file", "index_add_file",
     "index_list_files", "index_get_file", "index_remove_file",
     "index_verify_integrity", "create_folder", "storj_delete_file",
     "list_trash", "restore_from_trash", "permanently_delete_from_trash",
     "empty_trash"}

(* C7: while the session slot is empty, every command that needs the master
   key (encrypt, decrypt, index add, list, get, remove, verify_integrity,
   create_folder, the trash commands) fails with the Locked error and changes
   neither the index nor the remote store. *)
C7_LockedCommandsFailAndChangeNothing ==
    [][(master_key = <<>> /\ resp'.op \in MasterKeyCommands)
          => /\ resp'.err = "Locked"
             /\ db' = db
             /\ remote' = remote]_vars

\* the session is locked and a bucket is configured:
\* permanently_delete_from_trash has sent its DELETE to the bucket and only
\* then answered Locked; the object is gone, the index file was never opened
C7_Witness ==
    /\ master_key = <<>> /\ storj_client
    /\ resp.op = "permanently_delete_from_trash" /\ resp.err = "Locked"
    /\ \A u \in AppUuids : hex_encode(u) \notin remote
    /\ ~db.exists

(* C8: the session slot is set only by a successful unlock or bootstrap, and
   lock clears it: after lock() the slot is empty. *)
C8_SlotSetByUnlockClearedByLock ==
    [][/\ (master_key' # master_key /\ master_key' # <<>>)
            => (resp'.op \in {"crypto_unlock", "crypto_bootstrap"} /\ resp'.ok)
       /\ resp'.op = "lock" => master_key' = <<>>]_vars

\* lock has been called on an unlocked session and the master key is still
\* in the slot
C8_Witness ==
    resp.op = "lock" /\ master_key # <<>>

(* C9: on a freshly opened index, after any sequence of successful upserts
   and removes (replacing upserts and removes of absent ids included),
   verify_integrity() returns true, whatever order the rows are iterated in. *)
C9_VerifyIntegrityHolds ==
    \A ord \in IndexOrders :
        verify_integrity(idx["A"].store, IndexHmacKey, ord) = Ok(TRUE)

C9_Witness ==
    /\ idx["A"].last = "remove_absent"
    /\ Cardinality(DOMAIN idx["A"].store.rows) = 2
    /\ \E id \in DOMAIN idx["A"].store.rows :
          idx["A"].store.rows[id].encrypted_size = 2048
    /\ verify_integrity(idx["A"].store, IndexHmacKey,
                        CHOOSE ord \in IndexOrders : TRUE) = Ok(TRUE)

(* C10: two indexes that hold the same set of rows, reached by any two
   sequences of upserts and removes, have equal stored Merkle roots. *)
C10_RootIndependentOfOrder ==
    (/\ idx["A"].store.rows = idx["B"].store.rows
     /\ idx["A"].store.root # <<>> /\ idx["B"].store.root # <<>>)
        => idx["A"].store.root = idx["B"].store.root

C10_Witness ==
    /\ idx["A"].store.rows = idx["B"].store.rows
    /\ Cardinality(DOMAIN idx["A"].store.rows) = 3
    /\ idx["A"].store.root = idx["B"].store.root
    /\ idx["A"].store.root # <<>>

(* C11: changing the encrypted_size of one entry of a map (the other entries
   equal) gives a different Merkle root, and MerkleTree::verify is true for
   the computed root only. *)
C11_SizeChangeChangesRoot ==
    /\ idx.pc \in {"changed", "verified"} => idx.root2 # idx.root
    /\ idx.pc = "verified" => (idx.verified <=> idx.expected = idx.root2)

C11_Witness ==
    /\ idx.pc = "verified" /\ Len(idx.entries) = 3
    /\ idx.expected = idx.root /\ ~idx.verified

(* C12: every read verifies the row MAC: when the logical_path, the
   encrypted_size or the MAC of a stored row has been modified behind the
   API, get of that row returns an error (not the modified metadata, not
   None) and list_all returns an error and no list. *)
C12_ModifiedRowIsRejected ==
    /\ (idx.last.op = "get" /\ idx.last.id \in idx.last.modified)
          => ~idx.last.res.ok
    /\ (idx.last.op = "list_all" /\ idx.last.modified # {})
          => (~idx.last.res.ok /\ idx.last.res.val = <<>>)

\* get has returned, as metadata of row f1, a path the API never wrote
C12_Witness ==
    /\ idx.last.op = "get" /\ idx.last.id = <<102, 49>>
    /\ idx.last.id \in idx.last.modified
    /\ idx.last.res.ok /\ idx.last.res.val # <<>>
    /\ idx.last.res.val[1].logical_path = <<49, 47, 97>>

(* C13: opening an existing index file with a master key whose DbKey does
   not unlock it returns the wrong-key error and leaves the file as it is;
   open never deletes or recreates an existing index file.  Stated on
   crypto_unlock, which hands the restored master key to SqlCipherIndex::open. *)
C13_WrongKeyOpenKeepsFile ==
    [][resp'.op = "crypto_unlock"
          => \A req \in RightPassphraseRequests, detects \in BOOLEAN :
                (/\ crypto_unlock(req, detects)
                 /\ db.exists
                 /\ db.key # derive_db_key(
                        KeyHierarchy_restore(req.password, req.password_salt,
                                             req.mkek).val.master_key))
                    => (~resp'.ok /\ db' = db)]_vars

\* an unlock has succeeded on an index without rows, created under the key
\* in the slot, while the bucket still holds an object of the vault
C13_Witness ==
    /\ resp.op = "crypto_unlock" /\ resp.ok
    /\ db.exists /\ db.key = derive_db_key(master_key)
    /\ db.store.rows = NoRows /\ remote # {}

(* C14: upsert and remove are atomic: when either returns an error, the
   active rows and the stored Merkle root are what they were before the
   call. *)
C14_FailedWriteChangesNothing ==
    (idx.last.op \in {"upsert", "remove"} /\ ~idx.last.ok)
        => (idx.store.rows = idx.last.rows /\ idx.store.root = idx.last.root)

\* an upsert has returned an error and its row is in the table, under the
\* root of the rows before it
C14_Witness ==
    /\ idx.last.op = "upsert" /\ ~idx.last.ok
    /\ DOMAIN idx.store.rows # DOMAIN idx.last.rows
    /\ idx.store.root = idx.last.root

(* C15: a row of the index made on the encrypt / upload path is there only
   after the envelope is in the remote store: in every reachable state such
   a row implies the remote object of its id.  (The rows of that path are
   the ones with the path of the encrypted file; index_add_file and
   create_folder write other paths.) *)
C15_RowOnlyAfterUpload ==
    \A id \in DOMAIN db.store.rows :
        db.store.rows[id].logical_path = AppPath => id \in remote

\* storage_encrypt_file has returned and its row is in the index with
\* nothing uploaded
C15_Witness ==
    /\ resp.op = "storage_encrypt_file" /\ resp.ok
    /\ \E id \in DOMAIN db.store.rows :
          db.store.rows[id].logical_path = AppPath /\ id \notin remote

(* C16: permanently_delete_from_trash and empty_trash purge a trash row only
   after the remote object of that id has been deleted: a row they take out
   of the trash has no remote object left, and a failed remote delete leaves
   the row in the trash. *)
C16_PurgeOnlyAfterRemoteDelete ==
    [][resp'.op \in {"permanently_delete_from_trash", "empty_trash"}
          => \A id \in DOMAIN db.store.trash \ DOMAIN db'.store.trash :
                id \notin remote']_vars

\* empty_trash has returned success, the trash and the index are empty and
\* an object is still in the bucket
C16_Witness ==
    /\ resp.op = "empty_trash" /\ resp.ok /\ master_key # <<>>
    /\ db.store.trash = NoRows /\ db.store.rows = NoRows
    /\ remote # {}

-----------------------------------------------------------------------------
(* C17: a file id goes absent -> active -> trashed -> (active | absent): in
   every state of the session no id is at once a row of the active table and
   a row of the trash table, and a command puts into the trash only an id
   that was an active row. *)
C17_FileIdStateMachine ==
    /\ [](\A id \in DOMAIN db.store.rows : id \notin DOMAIN db.store.trash)
    /\ [][\A id \in DOMAIN db'.store.trash \ DOMAIN db.store.trash :
             id \in DOMAIN db.store.rows]_vars

\* the id re-uploaded while it is in the trash: a row of both tables
C17_Witness ==
    /\ resp.op = "storj_upload_file" /\ resp.ok
    /\ \E id \in DOMAIN db.store.trash :
          /\ id \in DOMAIN db.store.rows
          /\ id \in remote

-----------------------------------------------------------------------------
(* C18: trash rows are no leaves of the Merkle tree and the stored root
   follows the active rows: after every sequence of upsert, remove,
   move_to_trash, restore_from_trash, remove_from_trash and empty_trash,
   verify_integrity returns true and the stored root, once written, is the
   root built over the active rows alone, whatever the order of the HashMap;
   and
   remove_from_trash and empty_trash leave the stored root as it was. *)
C18_RootFollowsActiveRows ==
    /\ \A ord \in IndexOrders :
          /\ verify_integrity(idx.store, IndexHmacKey, ord) = Ok(TRUE)
          /\ idx.store.root # <<>> =>
                idx.store.root =
                    MerkleTree_build(
                        MapEntries(list_all([idx.store EXCEPT !.trash = NoRows],
                                            IndexHmacKey, ord).val, ord))
    /\ idx.last.op \in {"remove_from_trash", "empty_trash"} =>
          idx.store.root = idx.last.root

\* a row restored from a trash that still holds another row, next to an
\* active row that never left
C18_Witness ==
    /\ idx.last.op = "restore_from_trash" /\ idx.last.ok
    /\ Cardinality(DOMAIN idx.store.rows) = 2
    /\ Cardinality(DOMAIN idx.store.trash) = 1
    /\ DOMAIN idx.store.trash \cap DOMAIN idx.store.rows = {}

-----------------------------------------------------------------------------
(* C19: the writes to the index are serialized: when two writing commands,
   each with its own handle, have both completed, the stored Merkle root is
   the root over the rows of the index (verify_integrity true) and both
   writes are reflected in the rows: an upserted id is a row, a removed id is
   none, unless the other command wrote the same id. *)
C19_ConcurrentWritesLeaveFreshRoot ==
    (\A t \in Writers : idx.cmd[t].pc = "done" /\ idx.cmd[t].ok) =>
        /\ \A ord \in IndexOrders :
              verify_integrity(idx.store, IndexHmacKey, ord) = Ok(TRUE)
        /\ \A t \in Writers :
              (\A u \in Writers \ {t} : idx.cmd[u].id # idx.cmd[t].id) =>
                  (idx.cmd[t].id \in DOMAIN idx.store.rows
                      <=> idx.cmd[t].op = "upsert")

\* two upserts of different ids into a new index, both completed and both
\* rows written, the stored root being the root over one of the rows only
C19_Witness ==
    /\ \A t \in Writers :
          /\ idx.cmd[t].pc = "done" /\ idx.cmd[t].ok
          /\ idx.cmd[t].op = "upsert"
    /\ DOMAIN idx.store.rows = {idx.cmd[t].id : t \in Writers}
    /\ Cardinality(DOMAIN idx.store.rows) = 2
    /\ \E id \in DOMAIN idx.store.rows :
          idx.store.root =
              upsert(FreshStore, IndexHmacKey, id,
                     [logical_path |-> idx.store.rows[id].logical_path,
                      encrypted_size |-> idx.store.rows[id].encrypted_size],
                     <<id>>).store.root

-----------------------------------------------------------------------------
(* C20: when storj_list_files has returned with the index available, every
   row left in the index has the id of an object in the bucket, the result
   holds exactly one item for each object in the bucket, and an object
   without a row is in the result with no path and no size and has not been
   given a row. *)
C20_ReconciliationMatchesRemote ==
    (idx.pc = "listed" /\ idx.opened) =>
        /\ \A id \in DOMAIN idx.store.rows :
              \E k \in idx.bucket : uuid_normalized(k) = id
        /\ Len(idx.files) = Cardinality(idx.bucket)
        /\ \A k \in idx.bucket : \E i \in DOMAIN idx.files : idx.files[i].uuid = k
        /\ \A k \in idx.bucket :
              uuid_normalized(k) \notin DOMAIN idx.before =>
                  /\ uuid_normalized(k) \notin DOMAIN idx.store.rows
                  /\ \E i \in DOMAIN idx.files :
                        /\ idx.files[i].uuid = k
                        /\ idx.files[i].logical_path = <<>>
                        /\ idx.files[i].encrypted_size = <<>>

\* a bucket of three files, each with its row: the result lists two of them
\* and the row of the third is gone
C20_Witness ==
    /\ idx.pc = "listed" /\ idx.opened
    /\ idx.bucket = SyncIds
    /\ DOMAIN idx.before = SyncIds
    /\ Len(idx.files) = MaxKeys
    /\ \E id \in idx.bucket : id \notin DOMAIN idx.store.rows

-----------------------------------------------------------------------------
(* C21: a command returns success only if every index write and every call
   to the bucket it made succeeded: after a successful storage_encrypt_file
   the row of the new envelope is in the index of the session's master key,
   and after a successful empty_trash no object of a purged trash row is
   left in the bucket. *)
C21_FailuresAreReturned ==
    [][/\ (resp'.op = "storage_encrypt_file" /\ resp'.ok) =>
              /\ db'.exists /\ db'.key = derive_db_key(master_key)
              /\ \E u \in AppUuids :
                    /\ hex_encode(u) \in DOMAIN db'.store.rows
                    /\ db'.store.rows[hex_encode(u)].logical_path = AppPath
       /\ (resp'.op = "empty_trash" /\ resp'.ok) =>
              \A id \in DOMAIN db.store.trash :
                  (hex_decode(id).ok /\ Len(hex_decode(id).val) = UUID_LEN)
                      => hex_encode(hex_decode(id).val) \notin remote']_vars

\* empty_trash has returned success and the trash is empty while the object
\* of a purged row is still in the bucket
C21_Witness ==
    /\ resp.op = "empty_trash" /\ resp.ok /\ storj_client
    /\ \E u \in AppUuids :
          /\ hex_encode(u) \in remote
          /\ hex_encode(u) \notin DOMAIN db.store.trash
          /\ hex_encode(u) \notin DOMAIN db.store.rows

-----------------------------------------------------------------------------
(* C22: when one field of a serialized envelope (magic, version, cipher_id,
   uuid, salt, commitment_hmac, nonce, ciphertext_length or ciphertext) has
   been replaced, parsing and decrypting under the original master key and
   path never returns a plaintext: the parse fails (by an error, or by a
   panic on a length that leaves usize), or decrypt_file fails at the header,
   at the commitment or at the AEAD tag.  The unchanged envelope decrypts to
   the plaintext. *)
C22_ChangedFieldFailsDecrypt ==
    st.pc = "decrypted" =>
        IF st.field = "none"
        THEN st.parsed = "parsed" /\ st.dec = Ok(st.plaintext)
        ELSE /\ ~st.dec.ok
             /\ \/ st.parsed \in {"InvalidHeader", "Panic"}
                \/ st.parsed = "parsed" /\ st.dec.err \in {"InvalidFormat", "Crypto"}

\* a uuid replaced by another: the envelope parses, the commitment differs
C22_Witness ==
    /\ st.pc = "decrypted" /\ st.field = "uuid"
    /\ st.parsed = "parsed" /\ st.dec.err = "InvalidFormat"
    /\ st.plaintext # <<>>

-----------------------------------------------------------------------------
(* C23: an envelope whose magic is not "AETH", whose version is not 1 or
   whose cipher_id is not 2 is rejected with the format error, no FileKey
   having been derived and the master key not having been read. *)
C23_BadHeaderRejectedBeforeKeys ==
    (st.pc = "done" /\ BadHeader(st.data)) =>
        /\ st.result = Err("InvalidFormat")
        /\ st.events = {}

\* "XETH" handed to an unlocked session: rejected as a format error, no
\* FileKey derived, the master key read from the slot before the parse
C23_Witness ==
    /\ st.pc = "done" /\ st.data.header.magic # MAGIC_NUMBER
    /\ st.result = Err("InvalidFormat")
    /\ st.events = {"master_key_read"}

-----------------------------------------------------------------------------
(* C24: every failure of decrypt_file that the envelope or the path causes
   (header constants, commitment, AEAD tag) is the InvalidFormat error; the
   AEAD decryption starts only once the commitment has verified, and a
   plaintext is returned only if the commitment and the tag both verify. *)
C24_DecryptFailuresAreInvalidFormat ==
    LET h == st.data.header
        committed == commitment(h.magic, h.version, h.cipher_id, h.uuid, h.salt,
                                derive_storage_file_key(st.mk, h.salt))
                        = h.commitment_hmac
    IN  /\ (st.pc = "done" /\ st.slot # <<>> /\ ~st.result.ok) =>
               st.result.err = "InvalidFormat"
        /\ st.pc = "open" => (~BadHeader(st.data) /\ committed)
        /\ (st.pc = "done" /\ st.result.ok) =>
               /\ ~BadHeader(st.data) /\ committed
               /\ AeadOpen(st.file_key, h.nonce, build_aad(st.path),
                           st.data.ciphertext) = st.result

\* the right key and another path: the commitment verifies, the tag does
\* not, and the error is the Crypto kind
C24_Witness ==
    /\ st.pc = "done" /\ st.path # AppPath
    /\ st.events = {"master_key_read", "file_key_derived"}
    /\ st.file_key # <<>>
    /\ st.result = Err("Crypto")

-----------------------------------------------------------------------------
(* C25: two calls of encrypt_file, also with the same master key, plaintext
   and path, return envelopes that differ in uuid, in salt, in nonce and in
   ciphertext; no two encryptions share a file id. *)
C25_EncryptionsAreDistinct ==
    \A i, j \in DOMAIN st.calls :
        i # j =>
            /\ st.calls[i].file.header.uuid # st.calls[j].file.header.uuid
            /\ st.calls[i].file.header.salt # st.calls[j].file.header.salt
            /\ st.calls[i].file.header.nonce # st.calls[j].file.header.nonce
            /\ st.calls[i].file.ciphertext # st.calls[j].file.ciphertext
            /\ hex_encode(st.calls[i].file.header.uuid)
                  # hex_encode(st.calls[j].file.header.uuid)

\* two calls with equal arguments
C25_Witness ==
    /\ st.pc = "done" /\ Len(st.calls) = 2
    /\ st.calls[1].mk = st.calls[2].mk
    /\ st.calls[1].plaintext = st.calls[2].plaintext
    /\ st.calls[1].plaintext # <<>>
    /\ st.calls[1].path = st.calls[2].path

-----------------------------------------------------------------------------
(* C26: serialization round-trips: from_bytes(to_bytes(f)) succeeds and
   equals f field by field, to_bytes(f) is 118 + N bytes long for a
   ciphertext of N bytes, and the 8 bytes at offset 110 are N in little
   endian. *)
C26_SerializationRoundTrip ==
    LET n == Len(st.file.ciphertext)
    IN  /\ (st.input = "whole" /\ st.pc \in {"input", "parsed"}) =>
               /\ Len(st.bytes) = 118 + n
               /\ SubSeq(st.bytes, 111, 118) = <<n, 0, 0, 0, 0, 0, 0, 0>>
               /\ SubSeq(st.bytes, 1, 4) = st.file.header.magic
               /\ SubSeq(st.bytes, 119, 118 + n) = st.file.ciphertext
        /\ (st.input = "whole" /\ st.pc = "parsed") => st.parsed = Ok(st.file)

C26_Witness ==
    /\ st.pc = "parsed" /\ st.input = "whole" /\ st.parsed.ok
    /\ Len(st.bytes) = 137
    /\ st.parsed.val.header.commitment_hmac # st.parsed.val.header.salt

-----------------------------------------------------------------------------
(* C27: from_bytes returns an error for every input shorter than 118 bytes
   and for every input shorter than 118 bytes plus the ciphertext length it
   declares; it returns no AetherFile built from cut bytes. *)
C27_TruncatedInputIsAnError ==
    (st.pc = "parsed" /\ st.input \in {"cut", "declared"}) =>
        st.parsed = Err("InvalidHeader")

\* 118 + N bytes declaring a ciphertext of 2^64 - 1 bytes: no error is
\* returned, the length arithmetic panics
C27_Witness ==
    /\ st.pc = "parsed" /\ st.input = "declared"
    /\ SubSeq(st.bytes, 111, 118) = Fill(LEN_SIZE, 255)
    /\ st.parsed = Err("Panic")

-----------------------------------------------------------------------------
\* the requests whose old password is not the one that sealed old_mkek
WrongOldPassword(req) ==
    \A mk \in AppMasterKeys :
        req.old_mkek # UnlockRequest(req.old_password, req.old_password, mk).mkek

\* what crypto_change_password returns for each request
ChangePasswordOutcome ==
    [req \in ChangePasswordRequests |->
        crypto_change_password(req, AppNewPasswordSalt, AppNonce)]

\* with the old passphrase that sealed the MKEK the command returns a pair
\* under the drawn salt that restores the same master key with the new
\* passphrase; with any other old passphrase it returns an error
ChangePasswordReturnsNewPair ==
    \A req \in ChangePasswordRequests :
        LET changed == ChangePasswordOutcome[req]
        IN  IF WrongOldPassword(req)
            THEN ~changed.ok
            ELSE /\ changed.ok
                 /\ changed.val.new_password_salt = AppNewPasswordSalt
                 /\ changed.val.new_password_salt # req.old_password_salt
                 /\ changed.val.new_mkek # req.old_mkek
                 /\ KeyHierarchy_restore(req.new_password,
                        changed.val.new_password_salt,
                        changed.val.new_mkek).val.master_key
                    = KeyHierarchy_restore(req.old_password,
                        req.old_password_salt, req.old_mkek).val.master_key

(* C28: crypto_change_password leaves the session slot, the index file (rows,
   stored Merkle root, trash) and the bucket as they were, whether it succeeds
   or fails; what it answers is the outcome of re-sealing for its request:
   with the old passphrase that sealed the MKEK a pair carrying the freshly
   drawn salt, which with the new passphrase restores the master key the old
   pair sealed, and with any other old passphrase an error. *)
C28_ChangePasswordChangesNoState ==
    [][resp'.op = "crypto_change_password"
          => /\ master_key' = master_key
             /\ storj_client' = storj_client
             /\ db' = db
             /\ remote' = remote
             /\ \E req \in ChangePasswordRequests :
                   resp' = Resp("crypto_change_password",
                                ChangePasswordOutcome[req].err)
             /\ ChangePasswordReturnsNewPair]_vars

\* the passphrase has been changed while the session was unlocked, the index
\* held a row and a trashed row, and the bucket held an object
C28_Witness ==
    /\ resp.op = "crypto_change_password" /\ resp.ok
    /\ master_key # <<>>
    /\ db.exists /\ DOMAIN db.store.rows # {} /\ DOMAIN db.store.trash # {}
    /\ remote # {}

-----------------------------------------------------------------------------
(* SpecMigrate: an index file written under schema version 1, whose
   file_index has no hmac column, opened and used by this version.
   idx is [db, hmac_key, pc, v1, last]: v1 holds the rows of the version 1
   file that no upsert or remove has touched since, last what the last
   operation returned. *)

V1Ids == {<<102, 49>>, <<102, 50>>}

\* the tables of a version 1 file: rows of [logical_path, encrypted_size]
V1Rows ==
    UNION {[ids -> IndexMetas] : ids \in SUBSET V1Ids}

V1Db(rows) ==
    [exists |-> TRUE, key |-> derive_db_key(IndexMasterKey), user_version |-> 1,
     store |-> [rows |-> rows, root |-> <<>>, trash |-> NoRows]]

MigrateInit ==
    /\ \E rows \in V1Rows :
          idx = [db |-> V1Db(rows), hmac_key |-> <<>>, pc |-> "closed",
                 v1 |-> rows, last |-> [op |-> "none", id |-> <<>>, result |-> Ok(<<>>)]]
    /\ StParked /\ KhParked /\ AppParked

MgOpen ==
    /\ idx.pc = "closed"
    /\ LET opened == SqlCipherIndex_open(idx.db, IndexMasterKey, FALSE)
       IN  idx' = [idx EXCEPT !.db = opened.db, !.hmac_key = opened.hmac_key,
                              !.pc = IF opened.ok THEN "open" ELSE "closed",
                              !.last = [op |-> "open", id |-> <<>>,
                                        result |-> IF opened.ok THEN Ok(<<>>)
                                                   ELSE Err(opened.err)]]
    /\ UNCHANGED <<st, kh, appVars>>

\* the SqlCipherIndex is dropped; the file stays
MgClose ==
    /\ idx.pc = "open"
    /\ idx' = [idx EXCEPT !.pc = "closed", !.hmac_key = <<>>,
                          !.last = [op |-> "close", id |-> <<>>, result |-> Ok(<<>>)]]
    /\ UNCHANGED <<st, kh, appVars>>

MgGet ==
    /\ idx.pc = "open"
    /\ \E id \in IndexIds :
          idx' = [idx EXCEPT !.last = [op |-> "get", id |-> id,
                                      result |-> get(idx.db.store, idx.hmac_key, id)]]
    /\ UNCHANGED <<st, kh, appVars>>

MgListAll ==
    /\ idx.pc = "open"
    /\ \E ord \in IndexOrders :
          idx' = [idx EXCEPT !.last = [op |-> "list_all", id |-> <<>>,
                                      result |-> list_all(idx.db.store, idx.hmac_key,
                                                          ord)]]
    /\ UNCHANGED <<st, kh, appVars>>

\* the answer of an operation that ends with update_merkle_root
Updated(r, hmac_key, ord) ==
    IF r.ok THEN Ok(<<>>) ELSE Err(list_all(r.store, hmac_key, ord).err)

MgUpsert ==
    /\ idx.pc = "open"
    /\ \E id \in IndexIds, meta \in IndexMetas, ord \in IndexOrders :
          LET r == upsert(idx.db.store, idx.hmac_key, id, meta, ord)
          IN  idx' = [idx EXCEPT !.db.store = r.store,
                                 !.v1 = WithoutRow(@, id),
                                 !.last = [op |-> "upsert", id |-> id,
                                           result |-> Updated(r, idx.hmac_key, ord)]]
    /\ UNCHANGED <<st, kh, appVars>>

MgRemove ==
    /\ idx.pc = "open"
    /\ \E id \in IndexIds, ord \in IndexOrders :
          LET r == remove(idx.db.store, idx.hmac_key, id, ord)
          IN  idx' = [idx EXCEPT !.db.store = r.store,
                                 !.v1 = WithoutRow(@, id),
                                 !.last = [op |-> "remove", id |-> id,
                                           result |-> Updated(r, idx.hmac_key, ord)]]
    /\ UNCHANGED <<st, kh, appVars>>

MigrateNext == MgOpen \/ MgClose \/ MgGet \/ MgListAll \/ MgUpsert \/ MgRemove

SpecMigrate == MigrateInit /\ [][MigrateNext]_vars

(* C29: once a version 1 index has been opened, every row it held (and that
   no later upsert or remove has touched) is returned by get and by list_all
   with the metadata it had, and carries the MAC compute_hmac gives it. *)
C29_V1RowsReadableAfterOpen ==
    idx.pc = "open"
        => \A id \in DOMAIN idx.v1 :
              /\ get(idx.db.store, idx.hmac_key, id) = Ok(<<idx.v1[id]>>)
              /\ RowHmacOk(idx.db.store.rows, idx.hmac_key, id)
              /\ \A ord \in IndexOrders :
                    LET listed == list_all(idx.db.store, idx.hmac_key, ord)
                    IN  /\ listed.ok
                        /\ \E i \in DOMAIN listed.val :
                              listed.val[i] =
                                  [id |-> id,
                                   logical_path |-> idx.v1[id].logical_path,
                                   encrypted_size |-> idx.v1[id].encrypted_size]

\* a version 1 file has been opened and migrated to SCHEMA_VERSION, and get
\* of one of its rows has failed on the NULL of the hmac column
C29_Witness ==
    /\ idx.pc = "open" /\ idx.db.user_version = SCHEMA_VERSION
    /\ idx.last.op = "get" /\ idx.last.id \in DOMAIN idx.v1
    /\ idx.last.result = Err("InvalidColumnType")

-----------------------------------------------------------------------------
(* SpecFileKey: the FileKey of crypto/mod.rs against the one the storage
   module derives.  st is [pc, mk, plaintext, path, enc, file_key, dec]:
   encrypt_file writes an envelope, derive_file_key is called with the
   envelope's salt, decrypt_file reads the envelope back. *)

\* FILE_KEY_INFO of crypto/mod.rs: "aether-drive:file-key"
CRYPTO_FILE_KEY_INFO ==
    <<97, 101, 116, 104, 101, 114, 45, 100, 114, 105, 118, 101, 58, 102, 105,
      108, 101, 45, 107, 101, 121>>

\* CryptoCore::derive_file_key
CryptoCore_derive_file_key(mk, file_salt) ==
    Ok(HkdfSha256(file_salt, mk, CRYPTO_FILE_KEY_INFO))

\* KeyHierarchy::derive_file_key
KeyHierarchy_derive_file_key(hierarchy, file_salt) ==
    CryptoCore_derive_file_key(hierarchy.master_key, file_salt)

FileKeyInit ==
    /\ \E mk \in MasterKeys, p \in Plaintexts, path \in Paths :
          st = [pc |-> "start", mk |-> mk, plaintext |-> p, path |-> path,
                enc |-> Err("none"), file_key |-> Err("none"), dec |-> Err("none")]
    /\ KhParked /\ AppParked /\ IdxParked

FkEncryptFile ==
    /\ st.pc = "start"
    /\ \E uuid \in Uuids, salt \in FileSalts, nonce \in Nonces :
          st' = [st EXCEPT !.pc = "encrypted",
                  !.enc = encrypt_file(st.mk, st.plaintext, st.path, uuid, salt, nonce)]
    /\ UNCHANGED <<kh, appVars, idx>>

FkDeriveFileKey ==
    /\ st.pc = "encrypted"
    /\ st.enc.ok
    /\ st' = [st EXCEPT !.pc = "derived",
                !.file_key = KeyHierarchy_derive_file_key(
                                 [master_key |-> st.mk], st.enc.val.header.salt)]
    /\ UNCHANGED <<kh, appVars, idx>>

FkDecryptFile ==
    /\ st.pc = "derived"
    /\ st' = [st EXCEPT !.pc = "decrypted",
                !.dec = decrypt_file(st.mk, st.enc.val, st.path)]
    /\ UNCHANGED <<kh, appVars, idx>>

FileKeyNext == FkEncryptFile \/ FkDeriveFileKey \/ FkDecryptFile

SpecFileKey == FileKeyInit /\ [][FileKeyNext]_vars

(* C30: derive_file_key called with an envelope's per-file salt returns the
   FileKey under which encrypt_file wrote the envelope and decrypt_file reads
   it: the key the storage module derives from the master key and that salt,
   over which the envelope's commitment is computed. *)
C30_DeriveFileKeyIsTheStorageKey ==
    st.pc \in {"derived", "decrypted"}
        => LET h == st.enc.val.header
           IN  /\ st.file_key.ok
               /\ st.file_key.val = derive_storage_file_key(st.mk, h.salt)
               /\ h.commitment_hmac =
                      commitment(h.magic, h.version, h.cipher_id, h.uuid, h.salt,
                                 st.file_key.val)

\* decrypt_file has returned the plaintext of an envelope whose salt gave
\* derive_file_key another key than the one the envelope is sealed under
C30_Witness ==
    /\ st.pc = "decrypted" /\ st.dec = Ok(st.plaintext)
    /\ st.file_key.ok
    /\ st.file_key.val # derive_storage_file_key(st.mk, st.enc.val.header.salt)

-----------------------------------------------------------------------------
(* index/mod.rs: InMemoryIndex, the HashMap from FileId to FileMetadata. *)

InMemoryIndex_new == NoRows

InMemoryIndex_upsert(entries, id, meta) == WithRow(entries, id, meta)

\* <<>> for None
InMemoryIndex_get(entries, id) ==
    IF id \in DOMAIN entries THEN <<entries[id]>> ELSE <<>>

InMemoryIndex_remove(entries, id) == WithoutRow(entries, id)

InMemoryIndex_len(entries) == Cardinality(DOMAIN entries)

InMemoryIndex_is_empty(entries) == DOMAIN entries = {}

\* SqlCipherIndex::is_empty
index_is_empty(store) == index_len(store) = 0

-----------------------------------------------------------------------------
(* SpecSessions: one index file used over several sessions.  Each session
   restores the master key from the passphrase and the MKEK and opens the
   file, calls upsert, get, remove, len and is_empty, and drops the index.
   idx is [db, hmac_key, pc, mem, last]: mem is an InMemoryIndex given the
   same calls, last holds what the last call returned from each of the two. *)

SessionPassword == <<112, 49>>

\* the MKEK written at bootstrap
SessionMkek ==
    seal_master_key(KeyHierarchy_bootstrap(SessionPassword, AppPasswordSalt,
                                           IndexMasterKey).val, AppNonce).val

Called(op, id, sql, mem) == [op |-> op, id |-> id, sql |-> sql, mem |-> mem]

SessionsInit ==
    /\ idx = [db |-> NoDb, hmac_key |-> <<>>, pc |-> "closed",
              mem |-> InMemoryIndex_new,
              last |-> Called("none", <<>>, Ok(<<>>), <<>>)]
    /\ StParked /\ KhParked /\ AppParked

\* crypto_unlock: KeyHierarchy::restore, then SqlCipherIndex::open
SsUnlock ==
    /\ idx.pc = "closed"
    /\ \E password \in Passwords :
          LET hierarchy == KeyHierarchy_restore(password, AppPasswordSalt, SessionMkek)
          IN  IF ~hierarchy.ok
              THEN idx' = [idx EXCEPT !.last = Called("unlock", <<>>,
                                                      Err(hierarchy.err), <<>>)]
              ELSE \E detects \in Detections(idx.db, hierarchy.val.master_key) :
                     LET opened == SqlCipherIndex_open(idx.db,
                                       hierarchy.val.master_key, detects)
                     IN  idx' = [idx EXCEPT
                                   !.db = opened.db, !.hmac_key = opened.hmac_key,
                                   !.pc = IF opened.ok THEN "open" ELSE "closed",
                                   !.last = Called("unlock", <<>>,
                                                   IF opened.ok THEN Ok(<<>>)
                                                   ELSE Err(opened.err), <<>>)]
    /\ UNCHANGED <<st, kh, appVars>>

\* the session ends: the SqlCipherIndex is dropped, the file stays
SsClose ==
    /\ idx.pc = "open"
    /\ idx' = [idx EXCEPT !.pc = "closed", !.hmac_key = <<>>,
                          !.last = Called("close", <<>>, Ok(<<>>), <<>>)]
    /\ UNCHANGED <<st, kh, appVars>>

SsUpsert ==
    /\ idx.pc = "open"
    /\ \E id \in IndexIds, meta \in IndexMetas, ord \in IndexOrders :
          LET r == upsert(idx.db.store, idx.hmac_key, id, meta, ord)
          IN  idx' = [idx EXCEPT
                        !.db.store = r.store,
                        !.mem = InMemoryIndex_upsert(@, id, meta),
                        !.last = Called("upsert", id,
                                        Updated(r, idx.hmac_key, ord), <<>>)]
    /\ UNCHANGED <<st, kh, appVars>>

SsRemove ==
    /\ idx.pc = "open"
    /\ \E id \in IndexIds, ord \in IndexOrders :
          LET r == remove(idx.db.store, idx.hmac_key, id, ord)
          IN  idx' = [idx EXCEPT
                        !.db.store = r.store,
                        !.mem = InMemoryIndex_remove(@, id),
                        !.last = Called("remove", id,
                                        Updated(r, idx.hmac_key, ord), <<>>)]
    /\ UNCHANGED <<st, kh, appVars>>

SsGet ==
    /\ idx.pc = "open"
    /\ \E id \in IndexIds :
          idx' = [idx EXCEPT
                    !.last = Called("get", id,
                                    get(idx.db.store, idx.hmac_key, id),
                                    InMemoryIndex_get(idx.mem, id))]
    /\ UNCHANGED <<st, kh, appVars>>

\* len and is_empty
SsLen ==
    /\ idx.pc = "open"
    /\ idx' = [idx EXCEPT
                 !.last = Called("len", <<>>,
                                 Ok(<<[len |-> index_len(idx.db.store),
                                       is_empty |-> index_is_empty(idx.db.store)]>>),
                                 <<[len |-> InMemoryIndex_len(idx.mem),
                                    is_empty |-> InMemoryIndex_is_empty(idx.mem)]>>)]
    /\ UNCHANGED <<st, kh, appVars>>

SessionsNext ==
    SsUnlock \/ SsClose \/ SsUpsert \/ SsRemove \/ SsGet \/ SsLen

SpecSessions == SessionsInit /\ [][SessionsNext]_vars

(* C31: when a session ends and the index is opened again under the master
   key restored from the passphrase, the file is the one the earlier
   sessions left: get returns the metadata of the last upsert of every id
   written and not removed, the ids of the rows are unchanged, and
   verify_integrity() is true. *)
C31_IndexSurvivesSessions ==
    [][/\ (idx.pc = "open" /\ idx'.pc = "closed") => idx'.db = idx.db
       /\ (idx.pc = "closed" /\ idx'.pc = "open")
            => /\ DOMAIN idx'.db.store.rows = DOMAIN idx.mem
               /\ \A id \in IndexIds :
                     get(idx'.db.store, idx'.hmac_key, id)
                        = Ok(InMemoryIndex_get(idx.mem, id))
               /\ \A ord \in IndexOrders :
                     verify_integrity(idx'.db.store, idx'.hmac_key, ord)
                        = Ok(TRUE)]_vars

\* a later session has opened a file in which earlier sessions left two rows
C31_Witness ==
    /\ idx.pc = "open" /\ idx.last.op = "unlock"
    /\ Cardinality(DOMAIN idx.db.store.rows) = 2

(* C33: on an index that only upsert and remove have written, every call of
   upsert, get, remove, len and is_empty returns what InMemoryIndex returns
   after the same calls, and the rows are the entries of the map: get gives
   the metadata of the last upsert of the id and None after its remove, an
   upsert of a present id replaces it, a remove of an absent id succeeds. *)
C33_SqlCipherIndexRefinesInMemoryIndex ==
    idx.pc = "open"
        => /\ idx.last.op \in {"upsert", "remove", "get", "len"}
                => idx.last.sql = Ok(idx.last.mem)
           /\ \A id \in IndexIds :
                 get(idx.db.store, idx.hmac_key, id)
                    = Ok(InMemoryIndex_get(idx.mem, id))
           /\ index_len(idx.db.store) = InMemoryIndex_len(idx.mem)
           /\ index_is_empty(idx.db.store) = InMemoryIndex_is_empty(idx.mem)

\* get has returned the metadata of a row while the index holds two
C33_Witness ==
    /\ idx.pc = "open" /\ idx.last.op = "get"
    /\ idx.last.sql.ok /\ idx.last.sql.val # <<>>
    /\ index_len(idx.db.store) = 2

-----------------------------------------------------------------------------
(* SpecSecrets: what the commands return and what is written to disk,
   against the secrets of the process.  st is
   [pc, salt, mkek, slot, secrets, response, persisted]: salt and mkek are
   the pair the caller keeps, slot the session's master key, secrets the
   passphrases, master key, KEKs and FileKeys the process has held, response
   the bytes of the last command's return value, persisted the byte strings
   on disk (the (password_salt, MKEK) pair, and the index rows by id). *)

SecretMasterKeys == {Fill(MASTER_KEY_LEN, 40 + k) : k \in 1..NumKeys}
SecretUuids == {Fill(UUID_LEN, 1), Fill(UUID_LEN, 2)}
SecretFileSalts == {Fill(SALT_LEN, 1), Fill(SALT_LEN, 2)}

\* a primitive's output begins with one of Opening and ends with one of Closing
Opening == {-1, -3, -5, -6}
Closing == {-2}

\* how many primitive outputs enclose position i of data
Enclosing(data, i) ==
    Cardinality({j \in 1..(i - 1) : data[j] \in Opening})
        - Cardinality({j \in 1..(i - 1) : data[j] \in Closing})

\* secret stands in data as it is, outside every hash, KDF and AEAD output
Contains(data, secret) ==
    /\ secret # <<>>
    /\ \E i \in 1..(Len(data) - Len(secret) + 1) :
          /\ data[i] = secret[1]
          /\ SubSeq(data, i, i + Len(secret) - 1) = secret
          /\ Enclosing(data, i) = 0

\* the name under which the caller keeps the (password_salt, MKEK) pair
MkekFile == <<109, 107, 101, 107>>

\* the serialized MkekBootstrapResponse / ChangePasswordResponse
MkekResponse(password_salt, mkek) == password_salt \o mkek.nonce \o mkek.payload

\* the bytes of a serialized envelope
EnvelopeBytes(data) ==
    data.header.magic \o <<data.header.version, data.header.cipher_id>>
        \o data.header.uuid \o data.header.salt \o data.header.commitment_hmac
        \o data.header.nonce \o data.ciphertext_len \o data.ciphertext

\* a row of file_index
RowBytes(id, meta, hmac) ==
    id \o meta.logical_path \o U64Le(meta.encrypted_size) \o hmac

SecretsInit ==
    /\ st = [pc |-> "new", salt |-> <<>>, mkek |-> <<>>, slot |-> <<>>,
             secrets |-> {}, response |-> <<>>, persisted |-> NoRows]
    /\ KhParked /\ AppParked /\ IdxParked

ScBootstrap ==
    /\ st.pc = "new"
    /\ \E password \in AppPasswords, mk \in SecretMasterKeys :
          LET hierarchy == KeyHierarchy_bootstrap(password, AppPasswordSalt, mk)
              mkek == seal_master_key(hierarchy.val, AppNonce)
          IN  st' = [st EXCEPT
                       !.pc = "unlocked", !.salt = AppPasswordSalt,
                       !.mkek = mkek.val, !.slot = mk,
                       !.secrets = {password, mk, hierarchy.val.kek},
                       !.response = MkekResponse(AppPasswordSalt, mkek.val),
                       !.persisted = WithRow(NoRows, MkekFile,
                                        MkekResponse(AppPasswordSalt, mkek.val))]
    /\ UNCHANGED <<kh, appVars, idx>>

\* the process exits and starts again
ScRun ==
    /\ st.pc = "unlocked"
    /\ st' = [st EXCEPT !.pc = "locked", !.slot = <<>>, !.response = <<>>]
    /\ UNCHANGED <<kh, appVars, idx>>

ScUnlock ==
    /\ st.pc = "locked"
    /\ \E password \in AppPasswords :
          LET hierarchy == KeyHierarchy_restore(password, st.salt, st.mkek)
          IN  st' = [st EXCEPT
                       !.pc = IF hierarchy.ok THEN "unlocked" ELSE "locked",
                       !.slot = IF hierarchy.ok THEN hierarchy.val.master_key
                                ELSE <<>>,
                       !.secrets = @ \cup {password, derive_kek(password, st.salt).val},
                       !.response = <<>>]
    /\ UNCHANGED <<kh, appVars, idx>>

ScChangePassword ==
    /\ st.pc \in {"locked", "unlocked"}
    /\ \E old_password \in AppPasswords, new_password \in AppPasswords :
          LET req == [old_password |-> old_password, new_password |-> new_password,
                      old_password_salt |-> st.salt, old_mkek |-> st.mkek]
              changed == crypto_change_password(req, AppNewPasswordSalt, AppNonce)
              tried == {old_password, new_password,
                        derive_kek(old_password, st.salt).val}
          IN  IF ~changed.ok
              THEN st' = [st EXCEPT !.secrets = @ \cup tried, !.response = <<>>]
              ELSE st' = [st EXCEPT
                            !.salt = changed.val.new_password_salt,
                            !.mkek = changed.val.new_mkek,
                            !.secrets = @ \cup tried \cup
                                {derive_kek(new_password, AppNewPasswordSalt).val},
                            !.response = MkekResponse(changed.val.new_password_salt,
                                                      changed.val.new_mkek),
                            !.persisted = WithRow(@, MkekFile,
                                MkekResponse(changed.val.new_password_salt,
                                             changed.val.new_mkek))]
    /\ UNCHANGED <<kh, appVars, idx>>

\* storage_encrypt_file: the envelope is returned, its row put in the index
ScEncryptFile ==
    /\ st.pc = "unlocked"
    /\ \E uuid \in SecretUuids, salt \in SecretFileSalts :
          LET aether_file == encrypt_file(st.slot, AppData, AppPath, uuid, salt,
                                          AppNonce)
              serialized == to_bytes(aether_file.val)
              file_id == hex_encode(uuid)
              meta == [logical_path |-> AppPath, encrypted_size |-> serialized.len]
              hmac == compute_hmac(derive_hmac_key(st.slot), file_id, AppPath,
                                   serialized.len)
          IN  st' = [st EXCEPT
                       !.secrets = @ \cup {derive_storage_file_key(st.slot, salt)},
                       !.response = EnvelopeBytes(serialized),
                       !.persisted = WithRow(@, file_id,
                                             RowBytes(file_id, meta, hmac))]
    /\ UNCHANGED <<kh, appVars, idx>>

ScDecryptFile ==
    /\ st.pc = "unlocked"
    /\ \E uuid \in SecretUuids, salt \in SecretFileSalts, path2 \in {AppPath, <<47, 98>>} :
          LET aether_file == encrypt_file(st.slot, AppData, AppPath, uuid, salt,
                                          AppNonce)
              decrypted == decrypt_file(st.slot,
                               from_bytes(to_bytes(aether_file.val)).val, path2)
          IN  st' = [st EXCEPT
                       !.secrets = @ \cup {derive_storage_file_key(st.slot, salt)},
                       !.response = IF decrypted.ok THEN decrypted.val ELSE <<>>]
    /\ UNCHANGED <<kh, appVars, idx>>

SecretsNext ==
    \/ ScBootstrap \/ ScRun \/ ScUnlock \/ ScChangePassword
    \/ ScEncryptFile \/ ScDecryptFile

SpecSecrets == SecretsInit /\ [][SecretsNext]_vars

(* C32: no command's return value and no value written to disk holds a
   passphrase, the master key, a KEK or a FileKey as it is: bootstrap and
   change_password return the password salt and the MKEK alone, and the
   master key is persisted only sealed inside the MKEK. *)
C32_NoSecretInResponsesOrOnDisk ==
    \A secret \in st.secrets :
        /\ ~Contains(st.response, secret)
        /\ \A name \in DOMAIN st.persisted :
              ~Contains(st.persisted[name], secret)

\* after a password change an envelope has been returned, the pair and two
\* rows are on disk, and the process has held two passphrases, the master
\* key, two KEKs and a FileKey
C32_Witness ==
    /\ st.pc = "unlocked" /\ st.salt = AppNewPasswordSalt
    /\ Len(st.response) >= HEADER_SIZE
    /\ SubSeq(st.response, 1, 4) = MAGIC_NUMBER
    /\ Cardinality(DOMAIN st.persisted) >= 3
    /\ Cardinality(st.secrets) >= 6

-----------------------------------------------------------------------------
(* C34: the session slot is empty or holds a master key of MASTER_KEY_LEN
   bytes; crypto_unlock with the right passphrase and an MKEK that seals a
   key of another length fails and leaves the slot as it was. *)
C34_SlotHoldsA32ByteKey ==
    /\ [](master_key = <<>> \/ Len(master_key) = MASTER_KEY_LEN)
    /\ [][resp'.op = "crypto_unlock"
            => \A req \in ShortKeyRequests :
                  crypto_unlock(req, FALSE)
                     => ~resp'.ok /\ master_key' = master_key]_vars

\* an unlocked session without index file: crypto_unlock has failed at
\* SqlCipherIndex::open, which only a key of another length makes fail there
C34_Witness ==
    /\ resp.op = "crypto_unlock" /\ resp.err = "OpenFailed"
    /\ ~db.exists
    /\ master_key # <<>>

-----------------------------------------------------------------------------
(* SpecSplit: MerkleTree::build over maps of 0 to MaxLeaves entries.
   idx is [pc, entries, leaves, root]: entries is the map in the order it
   iterates, leaves the sorted leaf hashes, root the root hash. *)

MaxLeaves == 5

SplitId(k) == <<102, 48 + k>>

\* the maps of n entries with ids f1..fn, iterated upwards or downwards
SplitMaps ==
    UNION {{[i \in 1..n |->
               [id |-> SplitId(IF up THEN i ELSE n + 1 - i),
                logical_path |-> <<47, 97>>,
                encrypted_size |-> sizes[IF up THEN i ELSE n + 1 - i]]] :
            <<sizes, up>> \in [1..n -> {1024, 2048}] \X BOOLEAN} :
           n \in 0..MaxLeaves}

SplitInit ==
    /\ \E entries \in SplitMaps :
          idx = [pc |-> "start", entries |-> entries, leaves |-> <<>>, root |-> <<>>]
    /\ StParked /\ KhParked /\ AppParked

SpBuild ==
    /\ idx.pc = "start"
    /\ idx' = [idx EXCEPT
                 !.pc = "built",
                 !.leaves = sort_hashes([i \in DOMAIN idx.entries |->
                                           hash_entry(idx.entries[i])]),
                 !.root = MerkleTree_build(idx.entries)]
    /\ UNCHANGED <<st, kh, appVars>>

SplitNext == SpBuild

SpecSplit == SplitInit /\ [][SplitNext]_vars

\* the positions of tree at which a hash over the given prefix begins
HashStarts(tree, prefix) ==
    {i \in 1..(Len(tree) - Len(prefix)) :
        tree[i] = -1 /\ SubSeq(tree, i + 1, i + Len(prefix)) = prefix}

\* the k-th smallest element of a set of numbers
Nth(S, k) == CHOOSE x \in S : Cardinality({y \in S : y < x}) = k - 1

\* the last position of the hash that begins at position i of tree
HashEnd(tree, i) ==
    CHOOSE e \in i..Len(tree) :
        /\ tree[e] \in Closing /\ Enclosing(tree, e + 1) = Enclosing(tree, i)
        /\ \A f \in i..(e - 1) :
              ~(tree[f] \in Closing /\ Enclosing(tree, f + 1) = Enclosing(tree, i))

(* C35: MerkleTree::build ends for every number of entries; the root over no
   entry is SHA-256("aether-drive:merkle:empty"), the root over one entry is
   that entry's leaf hash, and the tree over n >= 1 sorted leaf hashes holds
   every leaf once, in sorted order, under n - 1 nodes, the left child of the
   root holding the first n / 2 leaves. *)
C35_TreeSplitsAtTheMiddle ==
    idx.pc = "built"
        => LET n == Len(idx.entries)
               leaf_starts == HashStarts(idx.root, MERKLE_ENTRY)
               node_starts == HashStarts(idx.root, MERKLE_NODE)
           IN  /\ n = 0 => idx.root = Sha256(MERKLE_EMPTY)
               /\ n = 1 => idx.root = hash_entry(idx.entries[1])
               /\ n >= 1
                    => /\ Cardinality(leaf_starts) = n
                       /\ Cardinality(node_starts) = n - 1
                       /\ \A k \in 1..n :
                             SubSeq(idx.root, Nth(leaf_starts, k),
                                    HashEnd(idx.root, Nth(leaf_starts, k)))
                                = idx.leaves[k]
                       /\ \A i \in 1..n :
                             Cardinality({k \in 1..n :
                                 idx.leaves[k] = hash_entry(idx.entries[i])}) = 1
               /\ n >= 2
                    => LET left == 2 + Len(MERKLE_NODE)
                       IN  Cardinality({i \in leaf_starts :
                                          i <= HashEnd(idx.root, left)})
                              = n \div 2

\* a tree over five entries has been built
C35_Witness ==
    idx.pc = "built" /\ Len(idx.entries) = 5 /\ idx.root # <<>>

-----------------------------------------------------------------------------
(* SpecRename: rename_file on an unlocked session whose index and bucket
   hold one uploaded file.  idx.store is the index, idx.bucket the bucket
   (object key -> serialized envelope), idx.last the last call: its paths,
   the id it found, whether that id had its object when the call began, the
   id of the new envelope, and how it ended. *)

RenameMasterKey == Fill(MASTER_KEY_LEN, 1)

RenameHmacKey == derive_hmac_key(RenameMasterKey)

\* the uuid of the first upload and the ones the generator hands out later
RenameUuids == {Fill(UUID_LEN, 1), Fill(UUID_LEN, 2), Fill(UUID_LEN, 3)}

RenameIds == {hex_encode(u) : u \in RenameUuids}

RenameOrders == {CHOOSE q \in AllOrders(RenameIds) : TRUE}

\* "/a", "/b"
RenamePaths == {<<47, 97>>, <<47, 98>>}

RenamePlaintexts == {<<72, 105>>, <<72, 111>>}

WithObject(bucket, key, data) ==
    [k \in DOMAIN bucket \cup {key} |-> IF k = key THEN data ELSE bucket[k]]

\* the first entry of list_all whose path is logical_path, as an Option
FindByPath(listed, logical_path) ==
    LET at == {i \in DOMAIN listed : listed[i].logical_path = logical_path}
    IN  IF at = {} THEN <<>>
        ELSE <<listed[CHOOSE i \in at : \A j \in at : i <= j]>>

RenameResult(err, store, bucket, file_id, new_id) ==
    [ok |-> err = "none", err |-> err, store |-> store, bucket |-> bucket,
     file_id |-> file_id, new_id |-> new_id]

\* the element of a one-element set
TheOne(S) == CHOOSE r \in S : TRUE

\* steps 6 and 7 of rename_file, on the index synced after the upload:
\* storj_delete_file moves the old row to the trash and leaves the object in
\* the bucket, then index.remove of the old id
rename_file_cleanup(synced, with_new, hmac_key, file_id, new_uuid_hex, ord) ==
    LET old == get(synced, hmac_key, file_id)
    IN  IF ~old.ok \/ old.val = <<>>
        THEN RenameResult(IF old.ok THEN "NotFound" ELSE "InvalidQuery",
                          synced, with_new, file_id, new_uuid_hex)
        ELSE TheOne({RenameResult("none",
                                  remove(trashed, hmac_key, file_id, ord).store,
                                  with_new, file_id, new_uuid_hex) :
                        trashed \in {move_to_trash(synced, hmac_key, file_id,
                                                   old.val[1], DeletedAt,
                                                   ord).store}})

\* step 5 of rename_file, on the index storage_encrypt_file wrote to:
\* storj_upload_file, which writes the row again
rename_file_upload(encrypted, bucket, hmac_key, file_id, new_uuid_hex, metadata, new_encrypted_data, uploaded, ord) ==
    IF ~uploaded
    THEN RenameResult("Remote", encrypted, bucket, file_id, new_uuid_hex)
    ELSE TheOne({rename_file_cleanup(synced, with_new, hmac_key, file_id,
                                     new_uuid_hex, ord) :
                    synced \in {upsert(encrypted, hmac_key, new_uuid_hex,
                                       metadata, ord).store},
                    with_new \in {WithObject(bucket, new_uuid_hex,
                                             new_encrypted_data)}})

\* downloaded and uploaded tell whether the GET and the PUT succeed; uuid,
\* salt and nonce are the random values storage_encrypt_file draws
rename_file(store, bucket, mk, hmac_key, old_logical_path, new_logical_path, uuid, salt, nonce, downloaded, uploaded, ord) ==
    LET \* step 1: the first row carrying the old path
        entries == list_all(store, hmac_key, ord)
        found == FindByPath(entries.val, old_logical_path)
        file_id == found[1].id
        \* step 2: storj_download_file
        file_uuid == hex_decode(file_id)
        encrypted_data == bucket[file_id]
        \* step 3: storage_decrypt_file with the old path
        parsed == from_bytes(encrypted_data)
        plaintext == decrypt_file(mk, parsed.val, old_logical_path)
        \* step 4: storage_encrypt_file with the new path, which writes the
        \* row of the new envelope
        aether_file == encrypt_file(mk, plaintext.val, new_logical_path, uuid,
                                    salt, nonce)
    IN  IF ~entries.ok THEN RenameResult(entries.err, store, bucket, <<>>, <<>>)
        ELSE IF found = <<>>
        THEN RenameResult("NotFound", store, bucket, <<>>, <<>>)
        ELSE IF ~file_uuid.ok \/ Len(file_uuid.val) # UUID_LEN
        THEN RenameResult("InvalidUuid", store, bucket, file_id, <<>>)
        ELSE IF ~downloaded \/ file_id \notin DOMAIN bucket
        THEN RenameResult("Remote", store, bucket, file_id, <<>>)
        ELSE IF ~parsed.ok THEN RenameResult("Parse", store, bucket, file_id, <<>>)
        ELSE IF ~plaintext.ok
        THEN RenameResult(plaintext.err, store, bucket, file_id, <<>>)
        ELSE IF ~aether_file.ok
        THEN RenameResult(aether_file.err, store, bucket, file_id, <<>>)
        ELSE TheOne(
               {TheOne({rename_file_upload(encrypted, bucket, hmac_key, id,
                                           new_uuid_hex, metadata,
                                           new_encrypted_data, uploaded, ord) :
                           encrypted \in {upsert(store, hmac_key, new_uuid_hex,
                                                 metadata, ord).store}}) :
                   id \in {file_id},
                   new_encrypted_data \in {to_bytes(aether_file.val)},
                   new_uuid_hex \in {hex_encode(aether_file.val.header.uuid)},
                   metadata \in {[logical_path |-> new_logical_path,
                                  encrypted_size |->
                                      to_bytes(aether_file.val).len]}})

\* the index and the bucket after storage_encrypt_file and storj_upload_file
\* of plaintext under logical_path
Uploaded(plaintext, logical_path, uuid) ==
    LET data == to_bytes(encrypt_file(RenameMasterKey, plaintext, logical_path,
                                      uuid, AppFileSalt, AppNonce).val)
    IN  [store |-> upsert(FreshStore, RenameHmacKey, hex_encode(uuid),
                          [logical_path |-> logical_path,
                           encrypted_size |-> data.len],
                          CHOOSE q \in RenameOrders : TRUE).store,
         bucket |-> WithObject(NoRows, hex_encode(uuid), data)]

RenameInit ==
    /\ \E plaintext \in RenamePlaintexts, logical_path \in RenamePaths :
          LET up == Uploaded(plaintext, logical_path, Fill(UUID_LEN, 1))
          IN  idx = [store |-> up.store, bucket |-> up.bucket,
                     last |-> [op |-> "none", ok |-> TRUE, err |-> "none",
                               old_logical_path |-> <<>>,
                               new_logical_path |-> <<>>,
                               file_id |-> <<>>, new_id |-> <<>>,
                               had_object |-> FALSE]]
    /\ StParked /\ KhParked /\ AppParked

\* the uuids not yet handed out
FreshUuids ==
    {u \in RenameUuids :
        hex_encode(u) \notin DOMAIN idx.store.rows \cup DOMAIN idx.store.trash
                             \cup DOMAIN idx.bucket}

RnRename ==
    /\ \E old_logical_path \in RenamePaths, new_logical_path \in RenamePaths,
          uuid \in FreshUuids, downloaded \in BOOLEAN, uploaded \in BOOLEAN,
          ord \in RenameOrders :
          LET r == rename_file(idx.store, idx.bucket, RenameMasterKey,
                               RenameHmacKey, old_logical_path,
                               new_logical_path, uuid, AppFileSalt, AppNonce,
                               downloaded, uploaded, ord)
          IN  idx' = [store |-> r.store, bucket |-> r.bucket,
                      last |-> [op |-> "rename_file", ok |-> r.ok,
                                err |-> r.err,
                                old_logical_path |-> old_logical_path,
                                new_logical_path |-> new_logical_path,
                                file_id |-> r.file_id, new_id |-> r.new_id,
                                had_object |-> r.file_id \in DOMAIN idx.bucket]]
    /\ UNCHANGED <<st, kh, appVars>>

RenameNext == RnRename

SpecRename == RenameInit /\ [][RenameNext]_vars

\* an index row together with its object in the bucket
CompletePair(id) == id \in DOMAIN idx.store.rows /\ id \in DOMAIN idx.bucket

\* C36: after a successful rename_file the old id is neither active nor in
\* the trash, the old object is gone from the bucket, and the file has one
\* active row, under the new uuid and the new path; after a failed one on a
\* file that had its object, the old or the new row still has its object.
C36_RenameReplacesTheFile ==
    idx.last.op = "rename_file" =>
        IF idx.last.ok
        THEN /\ idx.last.file_id \notin DOMAIN idx.store.rows
             /\ idx.last.file_id \notin DOMAIN idx.store.trash
             /\ idx.last.file_id \notin DOMAIN idx.bucket
             /\ idx.last.new_id \in DOMAIN idx.store.rows
             /\ idx.store.rows[idx.last.new_id].logical_path
                    = idx.last.new_logical_path
        ELSE idx.last.had_object =>
                \/ CompletePair(idx.last.file_id)
                \/ CompletePair(idx.last.new_id)

\* a rename has succeeded: the new row and the new object exist
C36_Witness ==
    /\ idx.last.op = "rename_file" /\ idx.last.ok
    /\ idx.last.old_logical_path # idx.last.new_logical_path
    /\ CompletePair(idx.last.new_id)
    /\ idx.last.file_id \notin DOMAIN idx.store.rows

-----------------------------------------------------------------------------
(* SpecEncoding: the row MAC and the Merkle leaf of two entries.  idx.a and
   idx.b are the entries (file id, logical path, encrypted size), idx.mac
   and idx.leaf the pair of values compute_hmac and hash_entry give. *)

\* "f", "f:", "f/", "f:/"
EncodingIds == {<<102>>, <<102, 58>>, <<102, 47>>, <<102, 58, 47>>}

\* "a", "/a", ":a", "/:a"
EncodingPaths == {<<97>>, <<47, 97>>, <<58, 97>>, <<47, 58, 97>>}

EncodingSizes == {0, 1024}

EncodingEntries ==
    [id : EncodingIds, logical_path : EncodingPaths,
     encrypted_size : EncodingSizes]

EncodingInit ==
    /\ idx \in [pc : {"start"}, a : EncodingEntries, b : EncodingEntries,
                mac : {<<>>}, leaf : {<<>>}]
    /\ StParked /\ KhParked /\ AppParked

EnComputeHmac ==
    /\ idx.mac = <<>>
    /\ idx' = [idx EXCEPT
                 !.pc = "computed",
                 !.mac = <<compute_hmac(IndexHmacKey, idx.a.id,
                                        idx.a.logical_path,
                                        idx.a.encrypted_size),
                           compute_hmac(IndexHmacKey, idx.b.id,
                                        idx.b.logical_path,
                                        idx.b.encrypted_size)>>]
    /\ UNCHANGED <<st, kh, appVars>>

EnHashEntry ==
    /\ idx.leaf = <<>>
    /\ idx' = [idx EXCEPT !.pc = "computed",
                          !.leaf = <<hash_entry(idx.a), hash_entry(idx.b)>>]
    /\ UNCHANGED <<st, kh, appVars>>

EncodingNext == EnComputeHmac \/ EnHashEntry

SpecEncoding == EncodingInit /\ [][EncodingNext]_vars

\* C37: two distinct (file_id, logical_path, encrypted_size) triples never
\* get the same row MAC input nor the same Merkle leaf preimage.
C37_EncodingsAreInjective ==
    idx.a # idx.b =>
        /\ idx.mac # <<>> => idx.mac[1] # idx.mac[2]
        /\ idx.leaf # <<>> => idx.leaf[1] # idx.leaf[2]

\* both values have been computed for two entries that differ by a
\* character moved from the id to the path
C37_Witness ==
    /\ idx.mac # <<>> /\ idx.leaf # <<>>
    /\ idx.a.id \o idx.a.logical_path = idx.b.id \o idx.b.logical_path
    /\ idx.a.id # idx.b.id
    /\ idx.a.encrypted_size = idx.b.encrypted_size

-----------------------------------------------------------------------------
\* C38: from_bytes does not panic on an input of 118 bytes or more,
\* whatever 64-bit ciphertext length the input declares; when the declared
\* length exceeds the bytes that follow, or its end leaves usize, the result
\* is InvalidHeader.
C38_FromBytesNeverPanics ==
    (st.pc = "parsed" /\ Len(st.bytes) >= HEADER_SIZE + LEN_SIZE) =>
        /\ st.parsed # Err("Panic")
        /\ st.input = "declared" => st.parsed = Err("InvalidHeader")

\* an input of 118 + N bytes declaring 2^64 - 118 bytes, the smallest length
\* whose end offset + ciphertext_len leaves usize, has been parsed
C38_Witness ==
    /\ st.pc = "parsed" /\ st.input = "declared"
    /\ Len(st.bytes) >= HEADER_SIZE + LEN_SIZE
    /\ SubSeq(st.bytes, HEADER_SIZE + 1, HEADER_SIZE + LEN_SIZE)
          = <<138, 255, 255, 255, 255, 255, 255, 255>>
    /\ ~st.parsed.ok

-----------------------------------------------------------------------------
(* SpecFolders: an unlocked session with a configured remote client, under
   create_folder, storj_upload_file, storj_list_files and
   list_files_and_folders.  idx.before holds the rows of the index at the
   start of the last storj_list_files. *)

EndsWith(s, c) == s # <<>> /\ s[Len(s)] = c

StartsWith(s, prefix) ==
    Len(s) >= Len(prefix) /\ SubSeq(s, 1, Len(prefix)) = prefix

\* str::trim_start_matches('/')
RECURSIVE TrimStartSlashes(_)
TrimStartSlashes(s) ==
    IF s # <<>> /\ s[1] = 47 THEN TrimStartSlashes(Tail(s)) ELSE s

\* str::rfind('/') counted from 1, 0 for None
LastSlash(s) ==
    LET at == {i \in DOMAIN s : s[i] = 47}
    IN  IF at = {} THEN 0 ELSE CHOOSE i \in at : \A j \in at : j <= i

\* str::split('/').next()
FirstSegment(s) ==
    LET at == {i \in DOMAIN s : s[i] = 47}
    IN  IF at = {} THEN s
        ELSE SubSeq(s, 1, (CHOOSE i \in at : \A j \in at : i <= j) - 1)

is_prefix(prefix, path) ==
    LET p == normalize_path(prefix)
        q == normalize_path(path)
    IN  IF p = <<47>> THEN StartsWith(q, <<47>>)
        ELSE StartsWith(q, p) /\ (Len(q) = Len(p) \/ q[Len(p) + 1] = 47)

get_parent_path(path) ==
    LET p == normalize_path(path)
        trimmed == TrimEndSlashes(p)
        last_slash == LastSlash(trimmed)
    IN  IF p = <<47>> THEN <<47>>
        ELSE IF last_slash <= 1 THEN <<47>>
        ELSE SubSeq(trimmed, 1, last_slash - 1)

get_name_from_path(path) ==
    LET trimmed == TrimEndSlashes(path)
    IN  SubSeq(trimmed, LastSlash(trimmed) + 1, Len(trimmed))

\* the folder path an entry of the index adds to the listing of
\* parent_normalized, as a set of zero or one path
FolderPathOf(e, parent_normalized) ==
    LET original_path == e.logical_path
        file_path == normalize_path(original_path)
        is_folder == EndsWith(original_path, 47) \/ e.encrypted_size = 0
        folder_path_clean == TrimEndSlashes(original_path)
        folder_parent == IF folder_path_clean = <<47>> \/ folder_path_clean = <<>>
                         THEN <<47>> ELSE get_parent_path(folder_path_clean)
        relative_path ==
            IF parent_normalized = <<47>> THEN TrimStartSlashes(file_path)
            ELSE TrimStartSlashes(
                    IF StartsWith(file_path, parent_normalized)
                    THEN SubSeq(file_path, Len(parent_normalized) + 1,
                                Len(file_path))
                    ELSE file_path)
        first_folder == FirstSegment(relative_path)
    IN  IF is_folder
        THEN IF normalize_path(folder_parent) = normalize_path(parent_normalized)
                /\ get_name_from_path(original_path) # <<>>
             THEN {IF EndsWith(original_path, 47) THEN original_path
                   ELSE original_path \o <<47>>}
             ELSE {}
        ELSE IF ~is_prefix(parent_normalized, file_path) \/ relative_path = <<>>
        THEN {}
        ELSE IF \E i \in DOMAIN relative_path : relative_path[i] = 47
        THEN IF first_folder = <<>> THEN {}
             ELSE {IF parent_normalized = <<47>> THEN <<47>> \o first_folder
                   ELSE parent_normalized \o <<47>> \o first_folder}
        ELSE {}

\* whether an entry is pushed to the files of the listing
IsFileOf(e, parent_normalized) ==
    LET file_path == normalize_path(e.logical_path)
        relative_path ==
            IF parent_normalized = <<47>> THEN TrimStartSlashes(file_path)
            ELSE TrimStartSlashes(
                    IF StartsWith(file_path, parent_normalized)
                    THEN SubSeq(file_path, Len(parent_normalized) + 1,
                                Len(file_path))
                    ELSE file_path)
    IN  /\ ~(EndsWith(e.logical_path, 47) \/ e.encrypted_size = 0)
        /\ is_prefix(parent_normalized, file_path)
        /\ relative_path # <<>>
        /\ \A i \in DOMAIN relative_path : relative_path[i] # 47

\* list_files_and_folders on an opened index: the DirectoryEntry, its
\* folders (collected from a HashSet) as a set
list_files_and_folders(store, hmac_key, parent_path, ord) ==
    LET parent == IF parent_path = <<>> THEN <<47>> ELSE parent_path[1]
        parent_normalized == normalize_path(parent)
        entries == list_all(store, hmac_key, ord)
        folder_paths == UNION {FolderPathOf(entries.val[i], parent_normalized) :
                                  i \in DOMAIN entries.val}
    IN  IF ~entries.ok THEN Err("InvalidQuery")
        ELSE Ok([files |-> SelectSeq(entries.val,
                                     LAMBDA e : IsFileOf(e, parent_normalized)),
                 folders |-> {[name |-> get_name_from_path(path), path |-> path] :
                                 path \in folder_paths}])

FolderMasterKey == Fill(MASTER_KEY_LEN, 1)

FolderUuids == {Fill(UUID_LEN, 1), Fill(UUID_LEN, 2)}

FolderOrders == {CHOOSE q \in AllOrders({hex_encode(u) : u \in FolderUuids}) : TRUE}

\* "d", "e"
NewFolderNames == {<<100>>, <<101>>}

\* None, Some("/d")
FolderParents == {<<>>, <<<<47, 100>>>>}

\* "/a", "/d/a"
UploadPaths == {<<47, 97>>, <<47, 100, 47, 97>>}

FoldersInit ==
    /\ master_key = FolderMasterKey
    /\ storj_client = TRUE
    /\ db = SqlCipherIndex_open(NoDb, FolderMasterKey, FALSE).db
    /\ remote = {}
    /\ resp = Resp("storj_configure", "none")
    /\ idx = [before |-> NoRows]
    /\ StParked /\ KhParked

FdCreateFolder ==
    \E folder_name \in NewFolderNames, parent_path \in FolderParents,
       uuid \in {u \in FolderUuids : FreshUuid(u)}, ord \in FolderOrders :
        create_folder(folder_name, parent_path, uuid, ord, FALSE)

FdUploadFile ==
    \E uuid \in {u \in FolderUuids : FreshUuid(u)}, logical_path \in UploadPaths,
       uploaded \in BOOLEAN, ord \in FolderOrders :
        storj_upload_file(
            to_bytes(encrypt_file(master_key, AppData, logical_path, uuid,
                                  AppFileSalt, AppNonce).val),
            logical_path, uploaded, ord, FALSE)

\* storj_list_files on the session: sent tells whether the ListObjectsV2
\* request succeeds
FdListFiles ==
    \E sent \in BOOLEAN, ord \in FolderOrders :
        LET index == open_index_with_state(master_key, db, FALSE)
            r == reconcile(list_files(remote), index.db.store, index.ok,
                           index.hmac_key, ord)
        IN  /\ UNCHANGED <<master_key, storj_client, remote, st, kh>>
            /\ idx' = [before |-> db.store.rows]
            /\ IF ~storj_client
               THEN /\ resp' = Resp("storj_list_files", "NotConfigured")
                    /\ UNCHANGED db
               ELSE IF ~sent
               THEN /\ resp' = Resp("storj_list_files", "Remote")
                    /\ UNCHANGED db
               ELSE /\ resp' = [op |-> "storj_list_files", ok |-> TRUE,
                                err |-> "none", val |-> r.files]
                    /\ db' = [index.db EXCEPT !.store = r.store]

FdListFilesAndFolders ==
    \E parent_path \in FolderParents, ord \in FolderOrders :
        LET index == open_index_with_state(master_key, db, FALSE)
            listed == list_files_and_folders(index.db.store, index.hmac_key,
                                             parent_path, ord)
        IN  /\ UNCHANGED <<master_key, storj_client, remote, st, kh, idx>>
            /\ db' = index.db
            /\ resp' = IF ~index.ok
                       THEN Resp("list_files_and_folders", index.err)
                       ELSE IF ~listed.ok
                       THEN Resp("list_files_and_folders", listed.err)
                       ELSE [op |-> "list_files_and_folders", ok |-> TRUE,
                             err |-> "none", val |-> listed.val]

FoldersNext ==
    FdCreateFolder \/ FdUploadFile \/ FdListFiles \/ FdListFilesAndFolders

SpecFolders == FoldersInit /\ [][FoldersNext]_vars

\* the ids of the rows create_folder wrote: size 0 and a path ending in '/'
FolderRows(rows) ==
    {id \in DOMAIN rows :
        rows[id].encrypted_size = 0 /\ EndsWith(rows[id].logical_path, 47)}

\* whether list_files_and_folders of the folder's parent names the folder
ListsFolder(logical_path) ==
    LET listed == list_files_and_folders(
                      db.store, derive_hmac_key(master_key),
                      <<get_parent_path(TrimEndSlashes(logical_path))>>,
                      CHOOSE ord \in FolderOrders : TRUE)
    IN  /\ listed.ok
        /\ \E f \in listed.val.folders : f.path = logical_path

\* C39: a folder row written by create_folder is in the active index after
\* every later storj_list_files, and list_files_and_folders still names it.
C39_FoldersSurviveReconciliation ==
    resp.op = "storj_list_files" =>
        \A id \in FolderRows(idx.before) :
            /\ id \in DOMAIN db.store.rows
            /\ ListsFolder(idx.before[id].logical_path)

\* storj_list_files has reconciled an index that held a folder row
C39_Witness ==
    /\ resp.op = "storj_list_files" /\ resp.ok
    /\ FolderRows(idx.before) # {}

-----------------------------------------------------------------------------
(* SpecLocks: commands running at the same time on the two mutexes of
   AppState.  A command is the sequence of its steps that touch a mutex or
   the remote store; a guard is released where the code drops it: at the
   end of the block or function that took it, and at every early return.
   idx.mk_lock and idx.client_lock hold the thread owning the mutex (0 for
   none), idx.slot and idx.client whether the two Options are Some, and
   idx.cmd[t] the command of thread t: its name, its position, whether it
   awaits the remote store, how many commands the thread may still start,
   and how its last command ended. *)

Threads == {1, 2}

\* the number of commands one thread starts
MaxCommands == 2

\* storj_upload_file keeping client_guard until it returns
Program_keeping_client_guard(name) ==
    CASE name = "crypto_unlock" ->
            <<"open_db", "lock_mk", "store_mk", "unlock_mk">>
      [] name = "storage_encrypt_file" ->
            <<"lock_mk", "read_mk", "unlock_mk",
              "lock_mk", "open_index_logged", "unlock_mk">>
      [] name = "storage_decrypt_file" ->
            <<"lock_mk", "read_mk", "unlock_mk">>
      [] name = "storj_configure" ->
            <<"create_client", "lock_client", "store_client", "unlock_client">>
      [] name = "storj_upload_file" ->
            <<"lock_client", "read_client", "remote",
              "lock_mk", "open_index", "unlock_mk">>
      [] name = "storj_download_file" ->
            <<"lock_client", "read_client", "unlock_client", "remote">>
      [] name = "storj_list_files" ->
            <<"lock_client", "read_client", "unlock_client", "remote",
              "lock_mk", "open_index_logged", "unlock_mk">>

\* the steps of each command, in the order the code takes them
Program(name) ==
    CASE name = "crypto_unlock" ->
            <<"open_db", "lock_mk", "store_mk", "unlock_mk">>
      [] name = "storage_encrypt_file" ->
            <<"lock_mk", "read_mk", "unlock_mk",
              "lock_mk", "open_index_logged", "unlock_mk">>
      [] name = "storage_decrypt_file" ->
            <<"lock_mk", "read_mk", "unlock_mk">>
      [] name = "storj_configure" ->
            <<"create_client", "lock_client", "store_client", "unlock_client">>
      [] name = "storj_upload_file" ->
            <<"lock_client", "read_client", "unlock_client", "remote",
              "lock_mk", "open_index", "unlock_mk">>
      [] name = "storj_download_file" ->
            <<"lock_client", "read_client", "unlock_client", "remote">>
      [] name = "storj_list_files" ->
            <<"lock_client", "read_client", "unlock_client", "remote",
              "lock_mk", "open_index_logged", "unlock_mk">>

Commands ==
    {"crypto_unlock", "storage_encrypt_file", "storage_decrypt_file",
     "storj_configure", "storj_upload_file", "storj_download_file",
     "storj_list_files"}

IdleCommand(left, result) ==
    [name |-> "none", pc |-> 0, waiting |-> FALSE, left |-> left,
     result |-> result]

\* the command after its current step: at the next step, or returned Ok
Advance(c) ==
    IF c.pc = Len(Program(c.name)) THEN IdleCommand(c.left, "ok")
    ELSE [c EXCEPT !.pc = @ + 1, !.waiting = FALSE]

\* the command after an early return
Abort(c) == IdleCommand(c.left, "err")

\* thread t goes on as c; a command that has returned holds no guard
Continue(t, c) ==
    [idx EXCEPT !.cmd[t] = c,
                !.mk_lock = IF c.name = "none" /\ @ = t THEN 0 ELSE @,
                !.client_lock = IF c.name = "none" /\ @ = t THEN 0 ELSE @]

CurrentStep(t) ==
    IF idx.cmd[t].name = "none" THEN "none"
    ELSE Program(idx.cmd[t].name)[idx.cmd[t].pc]

LocksInit ==
    /\ idx = [mk_lock |-> 0, client_lock |-> 0, slot |-> FALSE,
              client |-> FALSE,
              cmd |-> [t \in Threads |-> IdleCommand(MaxCommands, "none")]]
    /\ StParked /\ KhParked /\ AppParked

\* the runtime dispatches a command to thread t
LkStart(t) ==
    /\ idx.cmd[t].name = "none" /\ idx.cmd[t].left > 0
    /\ \E name \in Commands :
          idx' = [idx EXCEPT !.cmd[t] =
                    [name |-> name, pc |-> 1, waiting |-> FALSE,
                     left |-> idx.cmd[t].left - 1, result |-> "none"]]
    /\ UNCHANGED <<st, kh, appVars>>

\* one step of the command of thread t
LkStep(t) ==
    LET c == idx.cmd[t]
        step == CurrentStep(t)
    IN  /\ c.name # "none" /\ ~c.waiting
        /\ UNCHANGED <<st, kh, appVars>>
        /\ \/ /\ step \in {"open_db", "create_client"}
              /\ \E ok \in BOOLEAN :
                    idx' = Continue(t, IF ok THEN Advance(c) ELSE Abort(c))
           \/ /\ step = "lock_mk" /\ idx.mk_lock = 0
              /\ idx' = [Continue(t, Advance(c)) EXCEPT !.mk_lock = t]
           \/ /\ step = "read_mk"
              /\ idx' = Continue(t, IF idx.slot THEN Advance(c) ELSE Abort(c))
           \/ /\ step = "open_index"
              /\ \E opened \in BOOLEAN :
                    idx' = Continue(t, IF idx.slot /\ opened THEN Advance(c)
                                       ELSE Abort(c))
           \/ /\ step = "open_index_logged"
              /\ idx' = Continue(t, Advance(c))
           \/ /\ step = "store_mk"
              /\ idx' = [Continue(t, Advance(c)) EXCEPT !.slot = TRUE]
           \/ /\ step = "unlock_mk"
              /\ idx' = [Continue(t, Advance(c)) EXCEPT !.mk_lock = 0]
           \/ /\ step = "lock_client" /\ idx.client_lock = 0
              /\ idx' = [Continue(t, Advance(c)) EXCEPT !.client_lock = t]
           \/ /\ step = "read_client"
              /\ idx' = Continue(t, IF idx.client THEN Advance(c) ELSE Abort(c))
           \/ /\ step = "store_client"
              /\ idx' = [Continue(t, Advance(c)) EXCEPT !.client = TRUE]
           \/ /\ step = "unlock_client"
              /\ idx' = [Continue(t, Advance(c)) EXCEPT !.client_lock = 0]
           \/ /\ step = "remote"
              /\ idx' = [idx EXCEPT !.cmd[t].waiting = TRUE]

\* the remote store answers the request of thread t, with success or not
LkRemoteResponds(t) ==
    /\ idx.cmd[t].name # "none" /\ idx.cmd[t].waiting
    /\ \E ok \in BOOLEAN :
          idx' = Continue(t, IF ok THEN Advance(idx.cmd[t])
                             ELSE Abort(idx.cmd[t]))
    /\ UNCHANGED <<st, kh, appVars>>

LocksNext ==
    \E t \in Threads : LkStart(t) \/ LkStep(t) \/ LkRemoteResponds(t)

\* every thread that can take a step takes one, and the remote store
\* answers every request
SpecLocks ==
    /\ LocksInit /\ [][LocksNext]_vars
    /\ \A t \in Threads : WF_vars(LkStep(t)) /\ WF_vars(LkRemoteResponds(t))

\* C40: no command takes one of the two mutexes while it holds the other,
\* none holds the master-key mutex while it calls or awaits the remote
\* store, and every command that was started returns.
C40_CommandsNeverDeadlock ==
    /\ [](\A t \in Threads :
             /\ ~(idx.mk_lock = t /\ idx.client_lock = t)
             /\ ~(idx.mk_lock = t /\ CurrentStep(t) = "lock_client")
             /\ ~(idx.client_lock = t /\ CurrentStep(t) = "lock_mk")
             /\ ~(idx.mk_lock = t /\ CurrentStep(t) = "remote"))
    /\ \A t \in Threads :
          (idx.cmd[t].name # "none") ~> (idx.cmd[t].name = "none")

\* storj_upload_file awaits the remote store on one thread while
\* storage_encrypt_file holds the master-key mutex on the other
C40_Witness ==
    /\ idx.cmd[1].name = "storj_upload_file" /\ idx.cmd[1].waiting
    /\ idx.cmd[2].name = "storage_encrypt_file"
    /\ idx.mk_lock = 2 /\ idx.slot /\ idx.client

====
